---- MODULE Spec2Model ----
(***************************************************************************)
(* X Space Transcriber: the processing pipeline (audio source -> WAV ->     *)
(* transcription -> segments/speakers -> summary -> result record), the     *)
(* services it calls and the App state it reports into.                     *)
(*                                                                          *)
(* Strings that the code concatenates are sequences of parts (the parts in  *)
(* order are the string).  Text that the code scans character by character  *)
(* is a sequence of tokens.  JavaScript's undefined is the value Undefined. *)
(***************************************************************************)
EXTENDS Integers, Sequences, FiniteSets, TLC

\* ------------------------------------------------------------------ bounds
\* number of pipeline invocations (processAudio calls) in one behaviour
MaxRuns == 2
\* number of lines of a summary-provider response (SpecSvc)
MaxLines == 2

\* ------------------------------------------------------------------ values
NoError == <<>>               \* the empty string ''

\* import.meta.env values the services can be built with.  An unset
\* VITE_OPENAI_API_KEY is undefined (falsy, here ""); an unset proxy setting
\* becomes the string 'undefined' (`|| 'undefined'`); the bearer token is a
\* sequence of characters because the code reads its length.
OpenAiKeys == {"", "sk-test"}
ProxyUrls == {"undefined", "https://proxy.example/api/proxy"}
ProxyTokens == {"undefined", "proxy-token"}
BearerTokens == {<<>>, <<"A","A","A","A","A","A","A","A","A","A","A","A">>}

AllConfigs ==
  [openaiApiKey : OpenAiKeys, proxyUrl : ProxyUrls,
   proxyToken : ProxyTokens, twitterBearerToken : BearerTokens]

\* the deployments looked at: a forwarder with both settings or with the URL
\* alone, or none; without a forwarder, any of the keys may be missing
Configs ==
  {c \in AllConfigs :
     \/ c.proxyUrl # "undefined" /\ c.openaiApiKey # "" /\ c.twitterBearerToken # <<>>
     \/ c.proxyUrl = "undefined" /\ c.proxyToken = "undefined"
          /\ (c.openaiApiKey # "" \/ c.twitterBearerToken = <<>>)}

\* a field of a parsed JSON object that is present
Has(obj, field) == field \in DOMAIN obj

\* ------------------------------------------------------------------ errors
\* an Error object: its message.  origin is the message of the error first
\* raised at the point of failure (the same as msg until a catch re-throws).
Err(msg, origin) == [ok |-> FALSE, isError |-> TRUE, msg |-> msg, origin |-> origin]
\* a rejection with a value that is no Error object
NonError == [ok |-> FALSE, isError |-> FALSE, msg |-> <<>>, origin |-> <<>>]
\* the message of an error while it has not been re-thrown
Raise(msg) == Err(msg, msg)
Ok(value) == [ok |-> TRUE, value |-> value]

MsgNoKey ==
  <<"OpenAI API key not configured. Please add VITE_OPENAI_API_KEY to your .env file.">>
MsgFetchTypeError == <<"Failed to fetch">>
MsgJsonSyntaxError == <<"Unexpected token < in JSON at position 0">>
MsgNoContent == <<"No summary content received from API">>
MsgNoStreams == <<"No accessible audio streams found for this X Space">>
MsgUnableAccess ==
  <<"Unable to access X Space audio. The space may be private, expired, or audio may not be available for download.">>
MsgInvalidUrl == <<"Invalid or inaccessible X Space URL">>
MsgAudioFile == <<"Failed to process audio file">>
MsgDecode == <<"Unable to decode audio data">>
MsgProcessingFailed == <<"Processing failed. Please try again.">>

\* ------------------------------------------------------------------ HTTP
\* One fetch() call: what it is for, how it was sent, and the request it
\* carries.  via = "proxy": a POST to the forwarding endpoint whose JSON body
\* is payload; via = "direct": fetch(url, options).
Request(kind, via, target, payload) ==
  [kind |-> kind, via |-> via, target |-> target, payload |-> payload]

\* outcomes of a fetch: it rejects, or resolves with a response
FetchReject == [kind |-> "reject"]
NotOk(apiMessage) == [kind |-> "notok", apiMessage |-> apiMessage,
                      statusText |-> <<"Too Many Requests">>]
BadJson == [kind |-> "badjson"]
OkBody(data) == [kind |-> "ok", data |-> data]

\* ------------------------------------------------------------------ numbers as text
DigitChar(d) == <<"0", "1", "2", "3", "4", "5", "6", "7", "8", "9">>[d + 1]

RECURSIVE Digits(_)
\* Number.prototype.toString for a non-negative integer, as digit characters
Digits(n) == IF n < 10 THEN <<DigitChar(n)>> ELSE Digits(n \div 10) \o <<DigitChar(n % 10)>>

NumToString(n) == IF n < 0 THEN <<"-">> \o Digits(-n) ELSE Digits(n)

\* String.prototype.padStart(2, '0')
PadStart2(str) == IF Len(str) < 2 THEN <<"0">> \o str ELSE str

\* JavaScript % : the sign of the dividend
JsRem(a, b) == IF a >= 0 THEN a % b ELSE -((-a) % b)

\* ------------------------------------------------------------------ TranscriptionService
\* Times are whole seconds; a text is a sequence of characters.
SpeakerLabel(k) == <<"Speaker ">> \o NumToString(k)

\* `x || dflt` on a field that may be missing
OrDefault(obj, field, dflt) == IF Has(obj, field) THEN obj[field] ELSE dflt

\* processSegments that counts the segments from one
processSegmentsFromOne(segments) ==
  [i \in 1..Len(segments) |->
     [start   |-> OrDefault(segments[i], "start", 0),
      end     |-> OrDefault(segments[i], "end", 0),
      text    |-> OrDefault(segments[i], "text", <<>>),
      speaker |-> SpeakerLabel((i \div 5) + 1)]]

\* processSegments that takes a segment without text for an empty segment
processSegmentsStrict(segments) ==
  [i \in 1..Len(segments) |->
     [start   |-> IF Has(segments[i], "text") THEN OrDefault(segments[i], "start", 0) ELSE 0,
      end     |-> IF Has(segments[i], "text") THEN OrDefault(segments[i], "end", 0) ELSE 0,
      text    |-> OrDefault(segments[i], "text", <<>>),
      speaker |-> SpeakerLabel(((i - 1) \div 5) + 1)]]

\* segments.map(...): index is i - 1
processSegments(segments) ==
  [i \in 1..Len(segments) |->
     [start   |-> OrDefault(segments[i], "start", 0),
      end     |-> OrDefault(segments[i], "end", 0),
      text    |-> OrDefault(segments[i], "text", <<>>),
      speaker |-> SpeakerLabel(((i - 1) \div 5) + 1)]]

RECURSIVE AddAll(_, _)
\* Set insertion order: a value is appended the first time it is added
AddAll(speakers, segments) ==
  IF segments = <<>> THEN speakers
  ELSE LET sp == Head(segments).speaker
       IN AddAll(IF \E j \in 1..Len(speakers) : speakers[j] = sp
                   THEN speakers ELSE Append(speakers, sp),
                 Tail(segments))

\* identifySpeakers that collects the speakers into an array
identifySpeakersRepeating(segments) == [i \in 1..Len(segments) |-> segments[i].speaker]

identifySpeakers(segments) == AddAll(<<>>, segments)

Includes(text, ch) == \E i \in 1..Len(text) : text[i] = ch

Max(a, b) == IF a >= b THEN a ELSE b
Min(a, b) == IF a <= b THEN a ELSE b

\* ---- the numbers of calculateAverageConfidence: IEEE 754 doubles
\* A double between 1/32 and 8 whose value is within a few units of the last
\* place of num/(100*den): [num, den, d] is the number
\*     (num * 2^55 + d) / (25 * den)   in units of 2^-57.
\* Sums and quotients are rounded to the nearest double, ties to even, as the
\* JavaScript operators + and / do.
Dbl(num, den, d) == [num |-> num, den |-> den, d |-> d]

RECURSIVE Pow2(_)
Pow2(k) == IF k = 0 THEN 1 ELSE 2 * Pow2(k - 1)

\* 2^55 modulo m, for m below 2^15: 2^55 = 2^11 * (2^11)^4
Pow2To55Mod(m) ==
  LET a == 2048 % m
      b == (a * a) % m
      c == (b * b) % m
  IN (a * c) % m

\* the unit in the last place of the doubles around num/(100*den) is
\* 2^Exponent units of 2^-57
Exponent(num, den) ==
  IF num >= 400 * den THEN 7
  ELSE IF num >= 200 * den THEN 6
  ELSE IF num >= 100 * den THEN 5
  ELSE IF 2 * num >= 100 * den THEN 4
  ELSE IF 4 * num >= 100 * den THEN 3
  ELSE IF 8 * num >= 100 * den THEN 2
  ELSE IF 16 * num >= 100 * den THEN 1
  ELSE 0

\* the double nearest to the exact number [num, den, d]
RoundToDouble(num, den, d) ==
  IF num = 0 THEN Dbl(0, den, 0)
  ELSE LET step == 25 * den * Pow2(Exponent(num, den))
           r2 == ((num % (2 * step)) * Pow2To55Mod(2 * step) + d) % (2 * step)
           r == r2 % step
           odd == r2 >= step
           up == 2 * r > step \/ (2 * r = step /\ odd)
       IN Dbl(num, den, IF up THEN d - r + step ELSE d - r)

\* a literal of so many hundredths: 0.8 is DblLiteral(80)
DblLiteral(hundredths) == RoundToDouble(hundredths, 1, 0)

\* x + y for two doubles with den = 1
DblAdd(x, y) == RoundToDouble(x.num + y.num, 1, x.d + y.d)

\* x / n for a whole number n > 0
DblDiv(x, n) == RoundToDouble(x.num, x.den * n, x.d)

\* x < y
DblLess(x, y) ==
  LET a == x.num * y.den - y.num * x.den
  IN IF a # 0 THEN a < 0 ELSE x.d * y.den < y.d * x.den

\* Math.min(x, y)
DblMin(x, y) == IF DblLess(y, x) THEN y ELSE x

\* the per-segment estimate
SegmentConfidence(segment) ==
  LET textLength == Len(segment.text)
      duration == segment.end - segment.start
      d == Max(duration, 1)
      \* wordsPerSecond = textLength / d with whole numbers, d >= 1
      inBand == textLength > 2 * d /\ textLength < 8 * d
      punct == Includes(segment.text, ".") \/ Includes(segment.text, "?")
      base == DblLiteral(80)
      paced == IF inBand THEN DblAdd(base, DblLiteral(10)) ELSE base
      confidence == IF punct THEN DblAdd(paced, DblLiteral(5)) ELSE paced
  IN DblMin(confidence, DblLiteral(95))

RECURSIVE TotalScore(_, _)
\* the forEach loop: totalScore += ... , segment by segment
TotalScore(totalScore, segments) ==
  IF segments = <<>> THEN totalScore
  ELSE TotalScore(DblAdd(totalScore, SegmentConfidence(Head(segments))), Tail(segments))

\* totalScore / segments.length; 0 for no segments
calculateAverageConfidence(segments) ==
  IF Len(segments) = 0 THEN Dbl(0, 1, 0)
  ELSE DblDiv(TotalScore(Dbl(0, 1, 0), segments), Len(segments))

\* formatTimestamp with the minutes wrapped at the hour
formatTimestampWrapping(seconds) ==
  LET minutes == (seconds \div 60) % 60
      secs == JsRem(seconds, 60)
  IN PadStart2(NumToString(minutes)) \o <<":">> \o PadStart2(NumToString(secs))

formatTimestamp(seconds) ==
  LET minutes == seconds \div 60
      secs == JsRem(seconds, 60)
  IN PadStart2(NumToString(minutes)) \o <<":">> \o PadStart2(NumToString(secs))

RECURSIVE Join(_, _)
\* Array.prototype.join(separator) over texts; '' for no entries
Join(entries, separator) ==
  IF entries = <<>> THEN <<>>
  ELSE IF Len(entries) = 1 THEN entries[1]
  ELSE entries[1] \o separator \o Join(Tail(entries), separator)

\* one entry per segment; the entries are joined by '\n\n', which is one
\* token of the text
formatTranscriptWithTimestamps(segments) ==
  Join([i \in 1..Len(segments) |->
          LET timestamp == formatTimestamp(segments[i].start)
              speaker == IF segments[i].speaker # <<>> THEN segments[i].speaker
                         ELSE <<"Speaker">>
          IN <<"[">> \o timestamp \o <<"] ">> \o speaker \o <<": ">> \o segments[i].text],
       <<"\n\n">>)

RECURSIVE SplitOn(_, _, _)
\* the pieces of a text between the tokens sep, after the piece cur
SplitOn(text, sep, cur) ==
  IF text = <<>> THEN <<cur>>
  ELSE IF Head(text) = sep THEN <<cur>> \o SplitOn(Tail(text), sep, <<>>)
  ELSE SplitOn(Tail(text), sep, Append(cur, Head(text)))

\* the lines of a formatted transcript: what stands between the blank lines
FormattedLines(transcript) ==
  IF transcript = <<>> THEN <<>> ELSE SplitOn(transcript, "\n\n", <<>>)

OpenAiTranscriptionsUrl == <<"https://api.openai.com/v1/audio/transcriptions">>

\* headers without 'Content-Type'
WithoutContentType(headers) ==
  [h \in DOMAIN headers \ {"Content-Type"} |-> headers[h]]

Bearer(token) == <<"Bearer ", token>>

JsonHeaders(token) ==
  ("Authorization" :> Bearer(token)) @@ ("Content-Type" :> <<"application/json">>)

\* the headers of the POST to the forwarding endpoint
ProxyHeaders(token) == JsonHeaders(token)

\* TranscriptionService.makeApiRequest: the fetch it issues
TranscriptionMakeApiRequest(config, url, options) ==
  IF config.proxyUrl # "undefined"
    THEN Request("transcribe", "proxy", <<config.proxyUrl>>,
                 [method |-> "POST", headers |-> ProxyHeaders(config.proxyToken),
                  body |-> [url |-> url, method |-> options.method,
                            headers |-> WithoutContentType(options.headers),
                            body |-> IF options.body.type = "FormData"
                                       THEN [type |-> "string", value |-> "FORM_DATA"]
                                       ELSE options.body]])
    ELSE Request("transcribe", "direct", url, options)

\* the body of the try block of transcribeAudio, given the outcome of the fetch
TranscribeResponse(resp) ==
  CASE resp.kind = "reject" -> Err(MsgFetchTypeError, MsgFetchTypeError)
    [] resp.kind = "notok" ->
         LET m == <<"Transcription failed: ">> \o
                  (IF resp.apiMessage # <<>> THEN resp.apiMessage ELSE resp.statusText)
         IN Err(m, m)
    [] resp.kind = "badjson" -> Err(MsgJsonSyntaxError, MsgJsonSyntaxError)
    [] resp.kind = "ok" ->
         LET data == resp.data
             processedSegments == processSegments(OrDefault(data, "segments", <<>>))
         IN Ok([text       |-> OrDefault(data, "text", <<>>),
                segments   |-> processedSegments,
                speakers   |-> identifySpeakers(processedSegments),
                language   |-> OrDefault(data, "language", "en"),
                confidence |-> calculateAverageConfidence(processedSegments)])

\* a catch block that rethrows what it caught
TranscribeCatchRethrow(error) == error

\* the catch block of transcribeAudio
TranscribeCatch(error) ==
  Err(<<"Failed to transcribe audio: ">> \o error.msg, error.origin)

\* transcribeAudio with a second attempt after a failed request
transcribeAudioRetrying(config, audioBlob, filename, resp) ==
  IF config.openaiApiKey = ""
    THEN [reqs |-> <<>>, res |-> Err(MsgNoKey, MsgNoKey)]
    ELSE LET formData == [type |-> "FormData", file |-> audioBlob, filename |-> filename,
                          model |-> "whisper-1"]
             options == [method |-> "POST",
                         headers |-> ("Authorization" :> Bearer(config.openaiApiKey)),
                         body |-> formData]
             request == TranscriptionMakeApiRequest(config, OpenAiTranscriptionsUrl, options)
             inner == TranscribeResponse(resp)
         IN IF inner.ok THEN [reqs |-> <<request>>, res |-> inner]
            ELSE [reqs |-> <<request, request>>, res |-> TranscribeCatch(inner)]

\* transcribeAudio(audioBlob, filename), given the outcome of its fetch:
\* the requests it sent and what it returned or threw
transcribeAudio(config, audioBlob, filename, resp) ==
  IF config.openaiApiKey = ""
    THEN [reqs |-> <<>>, res |-> Err(MsgNoKey, MsgNoKey)]
    ELSE LET formData == [type |-> "FormData", file |-> audioBlob, filename |-> filename,
                          model |-> "whisper-1"]
             options == [method |-> "POST",
                         headers |-> ("Authorization" :> Bearer(config.openaiApiKey)),
                         body |-> formData]
             inner == TranscribeResponse(resp)
         IN [reqs |-> <<TranscriptionMakeApiRequest(config, OpenAiTranscriptionsUrl, options)>>,
             res  |-> IF inner.ok THEN inner ELSE TranscribeCatch(inner)]

\* ------------------------------------------------------------------ SummaryService
\* A response text is a sequence of tokens.  "{", "}", "\n", " ", "-" and
\* "&bull;" (the bullet character U+2022) are single characters; every other
\* token is a run of characters that
\* contains none of them.  A member token is one `"key": value` member of a
\* JSON object; "," is the comma between members.

\* a JSON value: its type and its content (a string is a sequence of tokens,
\* an array a sequence of strings)
JsonValue(type, value) == [type |-> type, value |-> value]
Str(value) == JsonValue("string", value)
Arr(value) == JsonValue("array", value)

\* the member tokens: key and value of each
MemberTable ==
  ("\"summary\": \"Talk\""        :> [key |-> "summary",      value |-> Str(<<"Talk">>)]) @@
  ("\"summary\": \"\""            :> [key |-> "summary",      value |-> Str(<<>>)]) @@
  ("\"keyPoints\": [\"kp\"]"      :> [key |-> "keyPoints",    value |-> Arr(<< <<"kp">> >>)]) @@
  ("\"keyPoints\": \"kp\""        :> [key |-> "keyPoints",    value |-> Str(<<"kp">>)]) @@
  ("\"topics\": [\"ai\"]"         :> [key |-> "topics",       value |-> Arr(<< <<"ai">> >>)]) @@
  ("\"sentiment\": \"positive\""  :> [key |-> "sentiment",    value |-> Str(<<"positive">>)]) @@
  ("\"sentiment\": \"mixed\""     :> [key |-> "sentiment",    value |-> Str(<<"mixed">>)]) @@
  ("\"sentiment\": \"happy\""     :> [key |-> "sentiment",    value |-> Str(<<"happy">>)]) @@
  ("\"sentiment\": 1"             :> [key |-> "sentiment",    value |-> JsonValue("number", <<"1">>)]) @@
  ("\"actionItems\": [\"do\"]"    :> [key |-> "actionItems",  value |-> Arr(<< <<"do">> >>)]) @@
  ("\"participants\": [\"Ann\"]"  :> [key |-> "participants", value |-> Arr(<< <<"Ann">> >>)]) @@
  ("\"participants\": null"       :> [key |-> "participants", value |-> JsonValue("null", <<>>)])

MemberTokens == DOMAIN MemberTable

\* the section markers and sentiment words that occur in the lowercased token
WordTable ==
  ("Summary:"          :> {"summary"}) @@
  ("Key Points:"       :> {"key points"}) @@
  ("Takeaways"         :> {"takeaways"}) @@
  ("Topics:"           :> {"topics"}) @@
  ("Sentiment:"        :> {"sentiment"}) @@
  ("Action Items:"     :> {"action"}) @@
  ("Summary of topics" :> {"summary", "topics"}) @@
  ("Positive"          :> {"positive"}) @@
  ("negative"          :> {"negative"}) @@
  ("neutral"           :> {"neutral"}) @@
  ("mixed"             :> {"mixed"}) @@
  ("talk"              :> {}) @@
  ("no json here at all" :> {})

WordTokens == DOMAIN WordTable

Whitespace == {" ", "\n"}
Bullets == {"-", "&bull;"}

\* what `token.toLowerCase().includes(word)` answers
TokenIncludes(token, word) ==
  IF token \in WordTokens THEN word \in WordTable[token]
  ELSE IF token \in MemberTokens
    THEN \/ word = "summary" /\ MemberTable[token].key = "summary"
         \/ word = "sentiment" /\ MemberTable[token].key = "sentiment"
         \/ word = "topics" /\ MemberTable[token].key = "topics"
         \/ word = "action" /\ MemberTable[token].key = "actionItems"
         \/ /\ MemberTable[token].value.type = "string"
            /\ MemberTable[token].value.value = <<word>>
  ELSE FALSE

LineIncludes(line, word) == \E i \in 1..Len(line) : TokenIncludes(line[i], word)

SubSeqFrom(seq, i) == SubSeq(seq, i, Len(seq))

\* content.match(/\{[\s\S]*\}/): from the first '{' to the last '}' after it
JsonMatch(content) ==
  LET opens == {i \in 1..Len(content) : content[i] = "{"}
      first == CHOOSE i \in opens : \A k \in opens : i <= k
      closes == {j \in 1..Len(content) : content[j] = "}" /\ j > first}
      last == CHOOSE j \in closes : \A k \in closes : k <= j
  IN IF opens = {} \/ closes = {}
       THEN [found |-> FALSE, text |-> <<>>]
       ELSE [found |-> TRUE, text |-> SubSeq(content, first, last)]

\* the object {}
EmptyObject == [k \in {} |-> k]

RECURSIVE Members(_, _)
\* the object built member by member: a later member overwrites an earlier one
Members(obj, tokens) ==
  IF tokens = <<>> THEN obj
  ELSE IF Head(tokens) \in MemberTokens
    THEN LET m == MemberTable[Head(tokens)]
         IN Members((m.key :> m.value) @@ obj, Tail(tokens))
    ELSE Members(obj, Tail(tokens))

\* JSON.parse of a text that starts with '{' and ends with '}': it is an
\* object exactly when, white space aside, members separated by commas (or
\* nothing) stand between the two braces; otherwise JSON.parse throws
JsonParse(text) ==
  LET inner == SelectSeq(SubSeq(text, 2, Len(text) - 1), LAMBDA t : t \notin Whitespace)
      valid == \/ inner = <<>>
               \/ /\ Len(inner) % 2 = 1
                  /\ \A i \in 1..Len(inner) :
                       IF i % 2 = 1 THEN inner[i] \in MemberTokens ELSE inner[i] = ","
  IN IF valid THEN [ok |-> TRUE, value |-> Members(EmptyObject, inner)]
     ELSE [ok |-> FALSE, value |-> EmptyObject]

ValidSentiments == {"positive", "negative", "neutral", "mixed"}

\* a validateSentiment that passes any string on
validateSentimentUnchecked(parsed) ==
  IF /\ Has(parsed, "sentiment")
     /\ parsed.sentiment.type = "string"
     /\ Len(parsed.sentiment.value) = 1
    THEN parsed.sentiment.value[1]
    ELSE "neutral"

\* validateSentiment applied to the member `sentiment` of the parsed object
validateSentiment(parsed) ==
  IF /\ Has(parsed, "sentiment")
     /\ parsed.sentiment.type = "string"
     /\ Len(parsed.sentiment.value) = 1
     /\ parsed.sentiment.value[1] \in ValidSentiments
    THEN parsed.sentiment.value[1]
    ELSE "neutral"

\* a member taken as it is, array or not
ArrayOrAny(parsed, field, dflt) ==
  IF Has(parsed, field) THEN parsed[field].value ELSE dflt

\* Array.isArray(parsed[field]) ? parsed[field] : dflt
ArrayOr(parsed, field, dflt) ==
  IF Has(parsed, field) /\ parsed[field].type = "array" THEN parsed[field].value ELSE dflt

\* `parsed.summary || dflt`: '' , null and a missing member are falsy
SummaryOr(parsed, dflt) ==
  IF /\ Has(parsed, "summary")
     /\ parsed.summary.type # "null"
     /\ ~(parsed.summary.type = "string" /\ parsed.summary.value = <<>>)
    THEN parsed.summary.value
    ELSE dflt

FallbackSummary == <<"Summary could not be generated.">>
FallbackKeyPoints == <<"Key points could not be extracted.">>
FallbackTopics == <<"Topics could not be identified.">>

\* the object literal returned on the JSON path
FromJson(parsed, speakers) ==
  [summary      |-> SummaryOr(parsed, FallbackSummary),
   keyPoints    |-> ArrayOr(parsed, "keyPoints", <<>>),
   topics       |-> ArrayOr(parsed, "topics", <<>>),
   sentiment    |-> validateSentiment(parsed),
   actionItems  |-> ArrayOr(parsed, "actionItems", <<>>),
   participants |-> ArrayOr(parsed, "participants", speakers)]

RECURSIVE SplitLines(_, _)
\* content.split('\n'): cur is the line being read
SplitLines(content, cur) ==
  IF content = <<>> THEN <<cur>>
  ELSE IF Head(content) = "\n" THEN <<cur>> \o SplitLines(Tail(content), <<>>)
  ELSE SplitLines(Tail(content), Append(cur, Head(content)))

RECURSIVE TrimStart(_)
TrimStart(line) ==
  IF line # <<>> /\ Head(line) \in Whitespace THEN TrimStart(Tail(line)) ELSE line

RECURSIVE TrimEnd(_)
TrimEnd(line) ==
  IF line # <<>> /\ line[Len(line)] \in Whitespace
    THEN TrimEnd(SubSeq(line, 1, Len(line) - 1)) ELSE line

Trim(line) == TrimEnd(TrimStart(line))

\* lines.filter(line => line.trim())
NonBlankLines(content) ==
  SelectSeq(SplitLines(content, <<>>), LAMBDA line : Trim(line) # <<>>)

StartsWithBullet(trimmed) == trimmed # <<>> /\ Head(trimmed) \in Bullets

\* trimmed.replace(/^[-&bull;]\s*/, '')
StripBullet(trimmed) == TrimStart(Tail(trimmed))

\* the rightmost of the four words, or "" for no match
SentimentMatchLast(trimmed) ==
  LET hits == {i \in 1..Len(trimmed) :
                 \E w \in ValidSentiments : TokenIncludes(trimmed[i], w)}
      last == CHOOSE i \in hits : \A k \in hits : k <= i
  IN IF hits = {} THEN ""
     ELSE CHOOSE w \in ValidSentiments : TokenIncludes(trimmed[last], w)

\* trimmed.toLowerCase().match(/(positive|negative|neutral|mixed)/): the
\* leftmost of the four words, or "" for no match
SentimentMatch(trimmed) ==
  LET hits == {i \in 1..Len(trimmed) :
                 \E w \in ValidSentiments : TokenIncludes(trimmed[i], w)}
      first == CHOOSE i \in hits : \A k \in hits : i <= k
  IN IF hits = {} THEN ""
     ELSE CHOOSE w \in ValidSentiments : TokenIncludes(trimmed[first], w)

\* the section a marker line switches to, "" for a line without marker
MarkerSection(trimmed) ==
  IF LineIncludes(trimmed, "summary") THEN "summary"
  ELSE IF LineIncludes(trimmed, "key points") \/ LineIncludes(trimmed, "takeaways")
    THEN "keypoints"
  ELSE IF LineIncludes(trimmed, "topics") THEN "topics"
  ELSE IF LineIncludes(trimmed, "sentiment") THEN "sentiment"
  ELSE IF LineIncludes(trimmed, "action") THEN "actions"
  ELSE ""

\* an iteration that also looks for a sentiment word in a sentiment header
TextLineReadingHeaders(st, line) ==
  LET trimmed == Trim(line)
      marker == MarkerSection(trimmed)
      bullet == StartsWithBullet(trimmed)
  IN IF marker # ""
       THEN [st EXCEPT !.currentSection = marker,
                       !.sentiment = IF marker = "sentiment" /\ SentimentMatch(trimmed) # ""
                                       THEN SentimentMatch(trimmed) ELSE @]
     ELSE IF st.currentSection = "summary" /\ ~bullet
       THEN [st EXCEPT !.summary =
               st.summary \o (IF st.summary # <<>> THEN <<" ">> ELSE <<>>) \o trimmed]
     ELSE IF st.currentSection = "keypoints" /\ bullet
       THEN [st EXCEPT !.keyPoints = Append(st.keyPoints, StripBullet(trimmed))]
     ELSE IF st.currentSection = "topics" /\ bullet
       THEN [st EXCEPT !.topics = Append(st.topics, StripBullet(trimmed))]
     ELSE IF st.currentSection = "actions" /\ bullet
       THEN [st EXCEPT !.actionItems = Append(st.actionItems, StripBullet(trimmed))]
     ELSE IF st.currentSection = "sentiment" /\ SentimentMatch(trimmed) # ""
       THEN [st EXCEPT !.sentiment = SentimentMatch(trimmed)]
     ELSE st

\* one iteration of the for loop of parseTextResponse
TextLine(st, line) ==
  LET trimmed == Trim(line)
      marker == MarkerSection(trimmed)
      bullet == StartsWithBullet(trimmed)
  IN IF marker # "" THEN [st EXCEPT !.currentSection = marker]
     ELSE IF st.currentSection = "summary" /\ ~bullet
       THEN [st EXCEPT !.summary =
               st.summary \o (IF st.summary # <<>> THEN <<" ">> ELSE <<>>) \o trimmed]
     ELSE IF st.currentSection = "keypoints" /\ bullet
       THEN [st EXCEPT !.keyPoints = Append(st.keyPoints, StripBullet(trimmed))]
     ELSE IF st.currentSection = "topics" /\ bullet
       THEN [st EXCEPT !.topics = Append(st.topics, StripBullet(trimmed))]
     ELSE IF st.currentSection = "actions" /\ bullet
       THEN [st EXCEPT !.actionItems = Append(st.actionItems, StripBullet(trimmed))]
     ELSE IF st.currentSection = "sentiment" /\ SentimentMatch(trimmed) # ""
       THEN [st EXCEPT !.sentiment = SentimentMatch(trimmed)]
     ELSE st

RECURSIVE TextLines(_, _)
TextLines(st, lines) ==
  IF lines = <<>> THEN st ELSE TextLines(TextLine(st, Head(lines)), Tail(lines))

\* a scan that starts in the summary section
TextStartInSummary ==
  [currentSection |-> "summary", summary |-> <<>>, keyPoints |-> <<>>, topics |-> <<>>,
   sentiment |-> "neutral", actionItems |-> <<>>]

\* the locals of parseTextResponse in front of the loop
TextStart ==
  [currentSection |-> "", summary |-> <<>>, keyPoints |-> <<>>, topics |-> <<>>,
   sentiment |-> "neutral", actionItems |-> <<>>]

parseTextResponse(content, speakers) ==
  LET st == TextLines(TextStart, NonBlankLines(content))
  IN [summary      |-> IF st.summary # <<>> THEN st.summary ELSE FallbackSummary,
      keyPoints    |-> IF Len(st.keyPoints) > 0 THEN st.keyPoints ELSE <<FallbackKeyPoints>>,
      topics       |-> IF Len(st.topics) > 0 THEN st.topics ELSE <<FallbackTopics>>,
      sentiment    |-> st.sentiment,
      actionItems  |-> st.actionItems,
      participants |-> speakers]

\* a non-greedy match: from the first '{' to the first '}' after it
JsonMatchFirstBlock(content) ==
  LET opens == {i \in 1..Len(content) : content[i] = "{"}
      first == CHOOSE i \in opens : \A k \in opens : i <= k
      closes == {j \in 1..Len(content) : content[j] = "}" /\ j > first}
      next == CHOOSE j \in closes : \A k \in closes : j <= k
  IN IF opens = {} \/ closes = {}
       THEN [found |-> FALSE, text |-> <<>>]
       ELSE [found |-> TRUE, text |-> SubSeq(content, first, next)]

\* parseSummaryResponse that takes the first brace block
parseSummaryResponseFirstBlock(content, speakers) ==
  LET jsonMatch == JsonMatchFirstBlock(content)
      parsed == JsonParse(jsonMatch.text)
  IN IF jsonMatch.found /\ parsed.ok
       THEN Ok(FromJson(parsed.value, speakers))
       ELSE Ok(parseTextResponse(content, speakers))

\* parseSummaryResponse never throws: the JSON.parse error is caught
parseSummaryResponse(content, speakers) ==
  LET jsonMatch == JsonMatch(content)
      parsed == JsonParse(jsonMatch.text)
  IN IF jsonMatch.found /\ parsed.ok
       THEN Ok(FromJson(parsed.value, speakers))
       ELSE Ok(parseTextResponse(content, speakers))

OpenAiChatUrl == <<"https://api.openai.com/v1/chat/completions">>

\* SummaryService.makeApiRequest: the fetch it issues
SummaryMakeApiRequest(config, url, options) ==
  IF config.proxyUrl # "undefined"
    THEN Request("summary", "proxy", <<config.proxyUrl>>,
                 [method |-> "POST", headers |-> ProxyHeaders(config.proxyToken),
                  body |-> [url |-> url, method |-> options.method,
                            headers |-> options.headers, body |-> options.body]])
    ELSE Request("summary", "direct", url, options)

\* the body of the try block of generateSummary, given the outcome of the fetch
SummaryResponse(resp, speakers) ==
  CASE resp.kind = "reject" -> Err(MsgFetchTypeError, MsgFetchTypeError)
    [] resp.kind = "notok" ->
         LET m == <<"Summary generation failed: ">> \o
                  (IF resp.apiMessage # <<>> THEN resp.apiMessage ELSE resp.statusText)
         IN Err(m, m)
    [] resp.kind = "badjson" -> Err(MsgJsonSyntaxError, MsgJsonSyntaxError)
    [] resp.kind = "ok" ->
         \* data.choices?.[0]?.message?.content ; '' and a missing member are falsy
         IF ~Has(resp.data, "content") \/ resp.data.content = <<>>
           THEN Err(MsgNoContent, MsgNoContent)
           ELSE parseSummaryResponse(resp.data.content, speakers)

\* the catch block of generateSummary
SummaryCatch(error) ==
  Err(<<"Failed to generate summary: ">> \o error.msg, error.origin)

\* generateSummary without the check of the key
generateSummaryUnguarded(config, transcript, speakers, resp) ==
  LET requestBody == [type |-> "string", model |-> "gpt-4",
                      transcript |-> transcript, speakers |-> speakers]
      options == [method |-> "POST",
                  headers |-> JsonHeaders(config.openaiApiKey),
                  body |-> requestBody]
      inner == SummaryResponse(resp, speakers)
  IN [reqs |-> <<SummaryMakeApiRequest(config, OpenAiChatUrl, options)>>,
      res  |-> IF inner.ok THEN inner ELSE SummaryCatch(inner)]

\* generateSummary(transcript, speakers), given the outcome of its fetch
generateSummary(config, transcript, speakers, resp) ==
  IF config.openaiApiKey = ""
    THEN [reqs |-> <<>>, res |-> Err(MsgNoKey, MsgNoKey)]
    ELSE LET requestBody == [type |-> "string", model |-> "gpt-4",
                             transcript |-> transcript, speakers |-> speakers]
             options == [method |-> "POST",
                         headers |-> JsonHeaders(config.openaiApiKey),
                         body |-> requestBody]
             inner == SummaryResponse(resp, speakers)
         IN [reqs |-> <<SummaryMakeApiRequest(config, OpenAiChatUrl, options)>>,
             res  |-> IF inner.ok THEN inner ELSE SummaryCatch(inner)]

\* ------------------------------------------------------------------ AudioService
\* a Blob: its MIME type and what it holds
Blob(type, data) == [type |-> type, data |-> data]

\* extractAudioFromUrl(url): `fetch(url)`, never through the proxy
extractAudioFromUrl(url, resp) ==
  LET inner ==
        CASE resp.kind = "reject" -> Err(MsgFetchTypeError, MsgFetchTypeError)
          [] resp.kind = "notok" ->
               LET m == <<"Failed to fetch audio: ">> \o resp.statusText IN Err(m, m)
          [] OTHER -> Ok(Blob("audio/mpeg", resp.data))
  IN [reqs |-> <<Request("audio", "direct", url, [method |-> "GET"])>>,
      res  |-> IF inner.ok THEN inner
               ELSE Err(<<"Failed to extract audio from URL: ", "Error: ">> \o inner.msg,
                        inner.origin)]

\* ---- audioBufferToWav
\* An AudioBuffer: length frames, numberOfChannels channels, sampleRate, and
\* channelData[channel][i] the sample of frame i, in units of 2^-16
\* (SampleUnit is 1.0).  An
\* ArrayBuffer is a function from the byte offsets to bytes.  The numbers
\* written stay below 2^31.
AudioBuffer(length, numberOfChannels, sampleRate, channelData) ==
  [length |-> length, numberOfChannels |-> numberOfChannels, sampleRate |-> sampleRate,
   channelData |-> channelData]

\* new ArrayBuffer(size): zero-filled
ArrayBuffer(size) == [k \in 0..size - 1 |-> 0]

\* DataView.setUint8 / setUint16 / setUint32 / setInt16, the last three with
\* littleEndian = true
setUint8(view, offset, value) == [view EXCEPT ![offset] = value % 256]

setUint16(view, offset, value) ==
  [view EXCEPT ![offset] = value % 256, ![offset + 1] = (value \div 256) % 256]

setUint32(view, offset, value) ==
  [view EXCEPT ![offset] = value % 256, ![offset + 1] = (value \div 256) % 256,
               ![offset + 2] = (value \div 65536) % 256,
               ![offset + 3] = (value \div 16777216) % 256]

\* the value is a whole number here; modulo 2^16 gives its two's complement
setInt16(view, offset, value) == setUint16(view, offset, value % 65536)

\* writeString(offset, string) for the four characters whose codes are given
writeString(view, offset, codes) ==
  setUint8(setUint8(setUint8(setUint8(view, offset, codes[1]), offset + 1, codes[2]),
                    offset + 2, codes[3]), offset + 3, codes[4])

RIFF == <<82, 73, 70, 70>>
WAVE == <<87, 65, 86, 69>>
FmtChunk == <<102, 109, 116, 32>>
DataChunk == <<100, 97, 116, 97>>

\* the sample 1.0
SampleUnit == 256 * 256

\* x * k with its fraction dropped, as setInt16 drops it (towards zero), for
\* a sample x in units of 1/SampleUnit: the whole part and the rest of x are
\* multiplied in turn
ScaleTrunc(x, k) ==
  LET a == IF x < 0 THEN -x ELSE x
      m == (a \div SampleUnit) * k + ((a % SampleUnit) * k) \div SampleUnit
  IN IF x < 0 THEN -m ELSE m

\* the conversion without Math.max and Math.min
SampleValueUnclamped(x) ==
  IF x < 0 THEN ScaleTrunc(x, 32768) ELSE ScaleTrunc(x, 32767)

\* Math.max(-1, Math.min(1, x)) and the number handed to setInt16:
\* sample * 0x8000 or sample * 0x7FFF
SampleValue(x) ==
  LET sample == Max(-SampleUnit, Min(SampleUnit, x))
  IN IF sample < 0 THEN ScaleTrunc(sample, 32768) ELSE ScaleTrunc(sample, 32767)

RECURSIVE WriteChannels(_, _, _, _)
\* the inner loop for frame i, from `channel` on; st is the view and offset
WriteChannels(st, buffer, i, channel) ==
  IF channel >= buffer.numberOfChannels THEN st
  ELSE WriteChannels(
         [view |-> setInt16(st.view, st.offset, SampleValue(buffer.channelData[channel][i])),
          offset |-> st.offset + 2],
         buffer, i, channel + 1)

RECURSIVE WriteFrames(_, _, _, _)
\* the outer loop for the frames lo..hi in order: the first half of them,
\* then the rest from where the first half ended
WriteFrames(st, buffer, lo, hi) ==
  IF lo > hi THEN st
  ELSE IF lo = hi THEN WriteChannels(st, buffer, lo, 0)
  ELSE CHOOSE done \in {WriteFrames(half, buffer, ((lo + hi) \div 2) + 1, hi) :
                           half \in {WriteFrames(st, buffer, lo, (lo + hi) \div 2)}} : TRUE

\* the WAV header written into view
WavHeader(view, length, numberOfChannels, sampleRate) ==
  LET v1 == writeString(view, 0, RIFF)
      v2 == setUint32(v1, 4, 36 + length * numberOfChannels * 2)
      v3 == writeString(v2, 8, WAVE)
      v4 == writeString(v3, 12, FmtChunk)
      v5 == setUint32(v4, 16, 16)
      v6 == setUint16(v5, 20, 1)
      v7 == setUint16(v6, 22, numberOfChannels)
      v8 == setUint32(v7, 24, sampleRate)
      v9 == setUint32(v8, 28, sampleRate * numberOfChannels * 2)
      v10 == setUint16(v9, 32, numberOfChannels * 2)
      v11 == setUint16(v10, 34, 16)
      v12 == writeString(v11, 36, DataChunk)
  IN setUint32(v12, 40, length * numberOfChannels * 2)

\* audioBufferToWav with the two channels of a frame written in turn
audioBufferToWavPlanar(buffer) ==
  LET length == buffer.length
      numberOfChannels == buffer.numberOfChannels
      view == WavHeader(ArrayBuffer(44 + length * numberOfChannels * 2), length,
                        numberOfChannels, buffer.sampleRate)
  IN [k \in DOMAIN view |->
        IF k < 44 THEN view[k]
        ELSE LET n == (k - 44) \div 2
                 value == SampleValue(buffer.channelData[n \div length][n % length]) % 65536
             IN IF (k - 44) % 2 = 0 THEN value % 256 ELSE value \div 256]

audioBufferToWav(buffer) ==
  LET length == buffer.length
      numberOfChannels == buffer.numberOfChannels
      view == WavHeader(ArrayBuffer(44 + length * numberOfChannels * 2), length,
                        numberOfChannels, buffer.sampleRate)
  IN WriteFrames([view |-> view, offset |-> 44], buffer, 0, length - 1).view

\* how decodeAudioData ends: it resolves, rejects with a DOMException, or
\* (callback-era WebKit) rejects with null
DecodeOutcomes == {"decoded", "DOMException", "null"}

\* convertToWav(audioBlob)
convertToWav(audioBlob, decoded) ==
  CASE decoded = "decoded" -> Ok(Blob("audio/wav", audioBlob.data))
    [] decoded = "DOMException" -> Raise(MsgDecode)
    [] OTHER -> NonError

\* processAudioFile(file): the Audio element loads the metadata or fires onerror
processAudioFile(file, loaded) ==
  IF loaded
    THEN Ok([audioBlob |-> Blob(file.type, file.name), duration |-> file.duration,
             format |-> file.type])
    ELSE Err(MsgAudioFile, MsgAudioFile)

\* ------------------------------------------------------------------ XSpaceService
\* A URL is its host and the segments of its path.
Url(host, path) == [host |-> host, path |-> path]

\* segments that match [a-zA-Z0-9]+ from their first character, and \d+
AlnumSegments == {"i", "spaces", "status", "1abcXYZ", "1790000000", "jane"}
DigitSegments == {"1790000000"}

\* the first match of the four patterns of extractSpaceId, or a throw
extractSpaceId(url) ==
  LET path == url.path
      afterSpaces == {i \in 1..Len(path) - 1 :
                        path[i] = "spaces" /\ path[i + 1] \in AlnumSegments}
      afterStatus == {i \in 1..Len(path) - 1 :
                        path[i] = "status" /\ path[i + 1] \in DigitSegments}
      firstOf(S) == CHOOSE i \in S : \A k \in S : i <= k
  IN IF afterSpaces # {} THEN Ok(path[firstOf(afterSpaces) + 1])
     ELSE IF url.host = "spaces.twitter.com" /\ path # <<>> /\ path[1] \in AlnumSegments
       THEN Ok(path[1])
     ELSE IF afterStatus # {} THEN Ok(path[firstOf(afterStatus) + 1])
     ELSE Err(<<"Invalid X Space URL format">>, <<"Invalid X Space URL format">>)

validateSpaceUrl(spaceUrl) == extractSpaceId(spaceUrl).ok

UndefinedChars == <<"u", "n", "d", "e", "f", "i", "n", "e", "d">>

\* the test that guards the calls to the Twitter API
TwitterConfigured(config) ==
  /\ config.twitterBearerToken # <<>>
  /\ config.twitterBearerToken # UndefinedChars
  /\ Len(config.twitterBearerToken) > 10

\* XSpaceService.makeApiRequest: the fetch it issues
XSpaceMakeApiRequest(config, kind, url, options) ==
  IF config.proxyUrl # "undefined" /\ config.proxyToken # "undefined"
    THEN Request(kind, "proxy", <<config.proxyUrl>>,
                 [method |-> "POST", headers |-> ProxyHeaders(config.proxyToken),
                  body |-> [url |-> url, method |-> options.method,
                            headers |-> options.headers, body |-> options.body]])
    ELSE Request(kind, "direct", url, options)

NoHeaders == [h \in {} |-> h]
NoBody == [type |-> "undefined"]

TwitterOptions(config) ==
  [method |-> "GET",
   headers |-> ("Authorization" :> <<"Bearer ">> \o config.twitterBearerToken) @@
               ("Content-Type" :> <<"application/json">>),
   body |-> NoBody]

DefaultTitle == <<"X Space Recording">>

BasicMetadata(id) ==
  [id |-> id, title |-> DefaultTitle, hostUsername |-> <<"Unknown">>,
   participantCount |-> 0, isLive |-> FALSE, state |-> "ended"]

\* the metadata built from the API answer {data: space, includes: {users}}
ApiMetadata(data, spaceId) ==
  LET space == data.data
  IN [id |-> OrDefault(space, "id", spaceId),
      title |-> IF Has(space, "title") /\ space.title # <<>> THEN space.title
                ELSE DefaultTitle,
      hostUsername |-> OrDefault(data, "host", <<"Unknown">>),
      participantCount |-> OrDefault(space, "participant_count", 0),
      isLive |-> Has(space, "state") /\ space.state = "live",
      state |-> OrDefault(space, "state", "ended")]

\* extractSpaceMetadata that lets the error of extractSpaceId and the failure
\* of the API call out
extractSpaceMetadataThrowing(config, spaceUrl, resp) ==
  LET spaceId == extractSpaceId(spaceUrl)
  IN IF ~spaceId.ok THEN [reqs |-> <<>>, res |-> spaceId]
     ELSE IF ~TwitterConfigured(config)
       THEN [reqs |-> <<>>, res |-> Ok(BasicMetadata(spaceId.value))]
     ELSE [reqs |-> <<XSpaceMakeApiRequest(config, "metadata",
                         <<"https://api.twitter.com/2/spaces/", spaceId.value>>,
                         TwitterOptions(config))>>,
           res |-> IF resp.kind = "ok" /\ Has(resp.data, "data")
                     THEN Ok(ApiMetadata(resp.data, spaceId.value))
                     ELSE IF resp.kind = "ok" THEN Ok(BasicMetadata(spaceId.value))
                     ELSE Raise(<<"Unable to access X Space metadata">>)]

\* extractSpaceMetadata(spaceUrl), given the outcome of its API call: it
\* never throws
extractSpaceMetadata(config, spaceUrl, resp) ==
  LET spaceId == extractSpaceId(spaceUrl)
  IN IF ~spaceId.ok THEN [reqs |-> <<>>, res |-> Ok(BasicMetadata("unknown"))]
     ELSE IF ~TwitterConfigured(config)
       THEN [reqs |-> <<>>, res |-> Ok(BasicMetadata(spaceId.value))]
     ELSE [reqs |-> <<XSpaceMakeApiRequest(config, "metadata",
                         <<"https://api.twitter.com/2/spaces/", spaceId.value>>,
                         TwitterOptions(config))>>,
           res |-> IF resp.kind = "ok" /\ Has(resp.data, "data")
                     THEN Ok(ApiMetadata(resp.data, spaceId.value))
                     ELSE Ok(BasicMetadata(spaceId.value))]

\* the three candidate playlist URLs
PossibleUrls(spaceId) ==
  << <<"https://prod-fastly-us-west-1.video.pscp.tv/", spaceId>>,
     <<"https://prod-fastly-us-east-1.video.pscp.tv/", spaceId>>,
     <<"https://prod-fastly-eu-west-1.video.pscp.tv/", spaceId>> >>

HeadOptions == [method |-> "HEAD", headers |-> NoHeaders, body |-> NoBody]

\* extractAudioUrl(spaceUrl): probes[i] is the outcome of the HEAD request to
\* the i-th candidate, stream the outcome of the audio_stream API call
extractAudioUrl(config, spaceUrl, probes, stream) ==
  LET spaceId == extractSpaceId(spaceUrl)
      urls == PossibleUrls(spaceId.value)
      hits == {i \in 1..Len(urls) : probes[i] = "ok"}
      first == CHOOSE i \in hits : \A k \in hits : i <= k
      tried == IF hits = {} THEN Len(urls) ELSE first
      probeReqs == [i \in 1..tried |->
                      XSpaceMakeApiRequest(config, "probe", urls[i], HeadOptions)]
      streamReq == XSpaceMakeApiRequest(config, "audio_stream",
                      <<"https://api.twitter.com/2/spaces/", spaceId.value, "/audio_stream">>,
                      TwitterOptions(config))
  IN IF ~spaceId.ok THEN [reqs |-> <<>>, res |-> spaceId]
     ELSE IF hits # {} THEN [reqs |-> probeReqs, res |-> Ok(urls[first])]
     ELSE IF ~TwitterConfigured(config)
       THEN [reqs |-> probeReqs, res |-> Err(MsgNoStreams, MsgNoStreams)]
     ELSE [reqs |-> Append(probeReqs, streamReq),
           res |-> IF stream.kind = "ok" /\ Has(stream.data, "audio_url")
                     THEN Ok(stream.data.audio_url)
                     ELSE Err(MsgNoStreams, MsgNoStreams)]

\* the catch block of processXSpace around extractAudioUrl and extractAudioFromUrl
ProcessXSpaceCatch(error) == Err(MsgUnableAccess, error.origin)

\* ------------------------------------------------------------------ UrlInput, FileUpload
\* validateXSpaceUrl of UrlInput: the five patterns, anchored at the start
validateXSpaceUrl(inputUrl) ==
  LET path == inputUrl.path
  IN \/ /\ inputUrl.host \in {"twitter.com", "www.twitter.com", "x.com", "www.x.com"}
        /\ Len(path) >= 3 /\ path[1] = "i" /\ path[2] = "spaces"
        /\ path[3] \in AlnumSegments
     \/ /\ inputUrl.host = "spaces.twitter.com"
        /\ Len(path) >= 1 /\ path[1] \in AlnumSegments
     \/ /\ inputUrl.host \in {"twitter.com", "x.com"}
        /\ Len(path) >= 3 /\ path[1] # "" /\ path[2] = "status"
        /\ path[3] \in DigitSegments

EmptyUrl == Url("", <<>>)
\* the texts typed into the URL field
UrlTexts ==
  {EmptyUrl, Url("example.com", <<"audio">>), Url("x.com", <<"i", "spaces", "1abcXYZ">>)}

MaxSize == 104857600
AllowedTypes == {"audio/mpeg", "audio/wav", "audio/mp3", "audio/m4a", "audio/ogg"}
AllowedExtensions == {"mp3", "wav", "m4a", "ogg"}

\* a File: name (base and extension), MIME type, size in bytes; duration is
\* what the Audio element reports for it
File(base, ext, type, size) ==
  [name |-> <<base, ".", ext>>, ext |-> ext, type |-> type, size |-> size, duration |-> 75]

\* the files the user picks or drops
\* the file of the "Tech Discussion Sample" button
MockFile == File("tech-discussion-sample", "mp3", "audio/mpeg", 0)

\* the files the user picks or drops: a copy of the sample, a FLAC file and
\* a file over the limit
UserFiles ==
  {MockFile,
   File("meeting", "flac", "audio/flac", 5000000),
   File("long", "wav", "audio/wav", MaxSize + 1)}

\* validateFile: "" for a valid file, else the message it sets
FileError(file) ==
  IF file.size > MaxSize THEN "File size must be less than 100MB"
  ELSE IF file.type \notin AllowedTypes /\ file.ext \notin AllowedExtensions
    THEN "Please upload a valid audio file (MP3, WAV, M4A, OGG)"
  ELSE ""

validateFile(file) == FileError(file) = ""

\* ------------------------------------------------------------------ state
VARIABLES
  config,               \* the import.meta.env values the services were built with
  isProcessing,         \* App: useState(false)
  transcriptionResult,  \* App: the run whose record is shown, 0 for null
  processingStep,       \* App: useState('')
  error,                \* App: useState('')
  input,                \* InputSelector, FileUpload and UrlInput state while mounted
  view,                 \* TranscriptionResult state while mounted
  pendingSubmits,       \* handleSubmit calls of UrlInput waiting for their timer
  runs,                 \* the processAudio invocations: position and locals
  records,              \* the TranscriptionData objects the invocations created
  call                  \* a service method called on its own: arguments and outcome

vars == <<call, config, isProcessing, transcriptionResult, processingStep, error,
          input, view, pendingSubmits, runs, records>>

Runs == 1..MaxRuns

None == <<>>
Some(x) == <<x>>

\* InputSelector as it mounts: useState('file'), and its children's state
InputMounted ==
  [inputMethod |-> "file", url |-> EmptyUrl, error |-> "", isValidating |-> FALSE,
   fileError |-> "", dragActive |-> FALSE]

\* TranscriptionResult as it mounts
ViewMounted == [activeTab |-> "summary", copied |-> FALSE, downloaded |-> None]

\* a processAudio invocation that has not been made
NoRun ==
  [pc |-> "idle", source |-> "none", input |-> None, metadata |-> None,
   audioUrl |-> None, audio |-> None, duration |-> 0, transcription |-> None,
   label |-> "", log |-> <<>>, calls |-> {}, outcome |-> None]

Init ==
  /\ config \in Configs
  /\ isProcessing = FALSE
  /\ transcriptionResult = 0
  /\ processingStep = ""
  /\ error = NoError
  /\ input = InputMounted
  /\ view = ViewMounted
  /\ pendingSubmits = <<>>
  /\ runs = [r \in Runs |-> NoRun]
  /\ records = [r \in Runs |-> None]
  /\ call = None

\* `!isProcessing && !transcriptionResult && !error`: InputSelector is rendered
InputShown(processing, result, err) == ~processing /\ result = 0 /\ err = NoError

\* the state of the unmounted components is gone; what the next render mounts
\* starts from the initial state
Rendered(nextInput, nextView) ==
  /\ input' = IF InputShown(isProcessing', transcriptionResult', error')
                THEN (IF InputShown(isProcessing, transcriptionResult, error)
                        THEN nextInput ELSE InputMounted)
                ELSE InputMounted
  /\ view' = IF transcriptionResult' # 0
               THEN (IF transcriptionResult # 0 THEN nextView ELSE ViewMounted)
               ELSE ViewMounted

\* ------------------------------------------------------------------ the run log
\* log: what an invocation did, in program order: the calls it awaited and
\* the requests it sent to the transcription and summary provider.
\* calls: the kinds of HTTP request it sent, each with the way it went.
ProviderKinds == {"transcribe", "summary"}
IsProviderRequest(req) == req.kind \in ProviderKinds
Call(req) == [kind |-> req.kind, via |-> req.via, method |-> req.payload.method]
Ev(stage, what) == [stage |-> stage, what |-> what, via |-> "", kind |-> ""]
ReqEv(stage, req) == [stage |-> stage, what |-> "request", via |-> req.via, kind |-> req.kind]
ReqEvs(stage, reqs) == [i \in 1..Len(reqs) |-> ReqEv(stage, reqs[i])]

\* ------------------------------------------------------------------ processAudio
\* an order that sends the audio to the provider before it is converted
StageOrderTranscribeFirst(source) ==
  IF source = "url"
    THEN <<"validate", "metadata", "xmetadata", "audioUrl", "fetch", "transcribe",
           "wav", "summary">>
    ELSE <<"audiofile", "transcribe", "wav", "summary">>

\* the awaited calls of processAudio (and, for a URL, of processXSpace inside
\* it) in the order of the code
StageOrder(source) ==
  IF source = "url"
    THEN <<"validate", "metadata", "xmetadata", "audioUrl", "fetch", "wav",
           "transcribe", "summary">>
    ELSE <<"audiofile", "wav", "transcribe", "summary">>

\* the call that follows `stage`, "assemble" after the last one
NextStage(source, stage) ==
  LET order == StageOrder(source)
      i == CHOOSE k \in 1..Len(order) : order[k] = stage
  IN IF i = Len(order) THEN "assemble" ELSE order[i + 1]

\* the setProcessingStep call in front of the call of `stage`, "" for none
StepLabel(source, stage) ==
  IF source = "url"
    THEN CASE stage = "validate" -> "Validating X Space URL..."
           [] stage = "metadata" -> "Extracting space metadata..."
           [] stage = "xmetadata" -> "Downloading audio stream..."
           [] OTHER -> ""
    ELSE CASE stage = "audiofile" -> "Processing audio file..."
           [] stage = "wav" -> "Converting audio format..."
           [] stage = "transcribe" -> "Transcribing speech to text..."
           [] stage = "summary" -> "Generating AI summary..."
           [] OTHER -> ""

\* formatDuration(seconds)
formatDuration(seconds) ==
  LET hours == seconds \div 3600
      minutes == (seconds % 3600) \div 60
      secs == seconds % 60
  IN IF hours > 0
       THEN NumToString(hours) \o <<":">> \o PadStart2(NumToString(minutes)) \o <<":">> \o
            PadStart2(NumToString(secs))
       ELSE NumToString(minutes) \o <<":">> \o PadStart2(NumToString(secs))

RECURSIVE MaxEnd(_)
\* segments.reduce((max, seg) => Math.max(max, seg.end), 0)
MaxEnd(segments) ==
  IF segments = <<>> THEN 0
  ELSE LET rest == MaxEnd(SubSeq(segments, 1, Len(segments) - 1))
       IN Max(rest, segments[Len(segments)].end)

\* the TranscriptionData object literal of processAudio
TranscriptionData(run, summary) ==
  LET transcription == run.transcription[1]
      isUrl == run.source = "url"
  IN [id           |-> "Date.now()",
      filename     |-> IF isUrl THEN run.metadata[1].title \o <<".", "mp3">>
                       ELSE run.input[1].name,
      duration     |-> IF isUrl THEN formatDuration(MaxEnd(transcription.segments))
                       ELSE formatDuration(run.duration),
      participants |-> Len(transcription.speakers),
      transcript   |-> formatTranscriptWithTimestamps(transcription.segments),
      summary      |-> summary.summary,
      keyPoints    |-> summary.keyPoints,
      timestamp    |-> "new Date().toISOString()",
      source       |-> run.source,
      originalUrl  |-> IF isUrl THEN run.input ELSE None,
      topics       |-> summary.topics,
      sentiment    |-> summary.sentiment,
      actionItems  |-> summary.actionItems]

\* ------------------------------------------------------------------ what the services are answered
EmptyData == EmptyObject

SpaceAnswer ==
  [data |-> [id |-> "1abcXYZ", title |-> <<"AI Talk">>, participant_count |-> 12,
             state |-> "ended"],
   host |-> <<"jane">>]

MetadataResponses == {NotOk(<<>>), OkBody(SpaceAnswer)}

ProbeOutcomes == {"reject", "ok"}

StreamResponses ==
  {FetchReject, OkBody(EmptyData),
   OkBody([audio_url |-> <<"https://cdn.example/space.m3u8">>])}

AudioResponses == {NotOk(<<>>), OkBody(<<"m3u8">>)}

TranscriptionAnswers ==
  {[text |-> <<"Hi. W">>, language |-> "en",
    segments |-> << [start |-> 0, end |-> 2, text |-> <<"H", "i", ".">>],
                    [start |-> 2, text |-> <<"W">>] >>]}

TranscribeResponses ==
  {FetchReject, NotOk(<<"Incorrect API key provided">>)}
    \cup {OkBody(d) : d \in TranscriptionAnswers}

SummaryContents ==
  { <<"{", "\"summary\": \"Talk\"", ",", "\"sentiment\": \"positive\"", "}">> }

SummaryResponses ==
  {FetchReject, OkBody(EmptyData)}
    \cup {OkBody([content |-> c]) : c \in SummaryContents}

\* ------------------------------------------------------------------ processAudio: start and end
Started == {r \in Runs : runs[r].pc # "idle"}
InFlight == {r \in Runs : runs[r].pc \notin {"idle", "done"}}

\* processAudio(source, inp) up to its first await
processAudio(source, inp) ==
  LET r == Cardinality(Started) + 1
      first == StageOrder(source)[1]
  IN /\ r \in Runs
     /\ isProcessing' = TRUE
     /\ transcriptionResult' = 0
     /\ error' = NoError
     /\ processingStep' = StepLabel(source, first)
     /\ runs' = [runs EXCEPT ![r] =
                   [NoRun EXCEPT !.pc = first, !.source = source, !.input = Some(inp),
                                 !.label = StepLabel(source, first),
                                 !.log = <<Ev(first, "start")>>]]
     /\ UNCHANGED <<call, config, records>>
     /\ Rendered(input, view)

\* `error instanceof Error ? error.message : 'Processing failed. Please try again.'`
ErrorMessage(err) == IF err.isError THEN err.msg ELSE MsgProcessingFailed

\* a run that has returned: its locals are gone
Finished(run, stage, what, outcome) ==
  [NoRun EXCEPT !.pc = "done", !.source = run.source,
                !.log = Append(run.log, Ev(stage, what)), !.calls = run.calls,
                !.outcome = Some(outcome)]

\* a catch block that reports the error and lets the run go on
CatchAndGoOn(r, run, err) ==
  LET next == NextStage(run.source, run.pc)
  IN /\ next # "assemble"
     /\ error' = ErrorMessage(err)
     /\ runs' = [runs EXCEPT ![r] =
                   [run EXCEPT !.pc = next,
                               !.log = run.log \o <<Ev(run.pc, "fail"), Ev(next, "start")>>]]
     /\ UNCHANGED <<call, config, isProcessing, transcriptionResult, processingStep,
                    records, pendingSubmits>>
     /\ Rendered(input, view)

\* the catch and finally blocks of processAudio
Catch(r, run, err) ==
  /\ error' = ErrorMessage(err)
  /\ isProcessing' = FALSE
  /\ processingStep' = ""
  /\ runs' = [runs EXCEPT ![r] =
                Finished(run, run.pc, "fail",
                         [kind |-> "error", msg |-> ErrorMessage(err), origin |-> err.origin])]
  /\ UNCHANGED <<call, config, transcriptionResult, records, pendingSubmits>>
  /\ Rendered(input, view)

\* the end of the try block of processAudio, and its finally block
Assemble(r, run, summary) ==
  /\ records' = [records EXCEPT ![r] = Some(TranscriptionData(run, summary))]
  /\ transcriptionResult' = r
  /\ isProcessing' = FALSE
  /\ processingStep' = ""
  /\ runs' = [runs EXCEPT ![r] =
                Finished([run EXCEPT !.log = Append(run.log, Ev("assemble", "start"))],
                         "assemble", "end", [kind |-> "result", msg |-> <<>>, origin |-> <<>>])]
  /\ UNCHANGED <<call, config, error, pendingSubmits>>
  /\ Rendered(input, view)

\* the awaited call `run.pc` has returned; run carries what it returned and
\* `after` is what the callee did between the answer to its request and its
\* return
Continue(r, run, after) ==
  LET next == NextStage(run.source, run.pc)
      label == StepLabel(run.source, next)
      logged == Append(run.log, Ev(run.pc, "end")) \o after
  IN /\ next # "assemble"
     /\ runs' = [runs EXCEPT ![r] =
                   [run EXCEPT !.pc = next, !.log = Append(logged, Ev(next, "start")),
                               !.label = IF label # "" THEN label ELSE run.label]]
     /\ processingStep' = IF label # "" THEN label ELSE processingStep
     /\ UNCHANGED <<call, config, isProcessing, transcriptionResult, error, records,
                    pendingSubmits, input, view>>

\* run with the requests of a call added to its log
Logged(run, reqs) ==
  [run EXCEPT !.log = run.log \o ReqEvs(run.pc, SelectSeq(reqs, IsProviderRequest)),
              !.calls = run.calls \cup {Call(reqs[i]) : i \in 1..Len(reqs)}]

\* ------------------------------------------------------------------ processAudio: the awaited calls
RunUrl(run) == run.input[1]

\* `await xSpaceService.validateSpaceUrl(input)` returns
Validate(r) ==
  LET run == runs[r]
  IN /\ run.pc = "validate"
     /\ IF validateSpaceUrl(RunUrl(run))
          THEN Continue(r, run, <<>>)
          ELSE Catch(r, run, Raise(MsgInvalidUrl))

\* `await xSpaceService.extractSpaceMetadata(input)` of processAudio returns;
\* its value is not used
Metadata(r) ==
  LET run == runs[r]
  IN /\ run.pc = "metadata"
     /\ \E resp \in MetadataResponses :
          Continue(r, Logged(run, extractSpaceMetadata(config, RunUrl(run), resp).reqs), <<>>)

\* `await this.extractSpaceMetadata(spaceUrl)` of processXSpace returns
XMetadata(r) ==
  LET run == runs[r]
  IN /\ run.pc = "xmetadata"
     /\ \E resp \in MetadataResponses :
          LET m == extractSpaceMetadata(config, RunUrl(run), resp)
          IN Continue(r, [Logged(run, m.reqs) EXCEPT !.metadata = Some(m.res.value)], <<>>)

\* `await this.extractAudioUrl(spaceUrl)` returns or throws
AudioUrl(r) ==
  LET run == runs[r]
  IN /\ run.pc = "audioUrl"
     /\ \E probes \in [1..3 -> ProbeOutcomes], stream \in StreamResponses :
          LET a == extractAudioUrl(config, RunUrl(run), probes, stream)
          IN IF a.res.ok
               THEN Continue(r, [Logged(run, a.reqs) EXCEPT !.audioUrl = Some(a.res.value)], <<>>)
               ELSE Catch(r, Logged(run, a.reqs), ProcessXSpaceCatch(a.res))

\* `await audioService.extractAudioFromUrl(audioUrl)` returns or throws;
\* audioUrl is not read again
Fetch(r) ==
  LET run == runs[r]
  IN /\ run.pc = "fetch"
     /\ \E resp \in AudioResponses :
          LET a == extractAudioFromUrl(run.audioUrl[1], resp)
          IN IF a.res.ok
               THEN Continue(r, [Logged(run, a.reqs) EXCEPT !.audio = Some(a.res.value),
                                                           !.audioUrl = None], <<>>)
               ELSE Catch(r, Logged(run, a.reqs), ProcessXSpaceCatch(a.res))

\* `await audioService.processAudioFile(file)` returns or throws
AudioFile(r) ==
  LET run == runs[r]
  IN /\ run.pc = "audiofile"
     /\ \E loaded \in BOOLEAN :
          LET a == processAudioFile(run.input[1], loaded)
          IN IF a.ok
               THEN Continue(r, [run EXCEPT !.audio = Some(a.value.audioBlob),
                                            !.duration = a.value.duration], <<>>)
               ELSE Catch(r, run, a)

\* `await audioService.convertToWav(...)` returns or throws
Wav(r) ==
  LET run == runs[r]
  IN /\ run.pc = "wav"
     /\ \E decoded \in DecodeOutcomes :
          LET w == convertToWav(run.audio[1], decoded)
          IN IF w.ok
               THEN Continue(r, [run EXCEPT !.audio = Some(w.value)], <<>>)
               ELSE Catch(r, run, w)

\* the name transcribeAudio is called with
Filename(run) ==
  IF run.source = "url" THEN run.metadata[1].title \o <<".", "wav">> ELSE run.input[1].name

\* `await transcriptionService.transcribeAudio(...)` returns or throws
Transcribe(r) ==
  LET run == runs[r]
  IN /\ run.pc = "transcribe"
     /\ \E resp \in TranscribeResponses :
          LET t == transcribeAudio(config, run.audio[1], Filename(run), resp)
              sent == Logged(run, t.reqs)
          IN IF t.res.ok
               THEN Continue(r, [sent EXCEPT !.transcription = Some(t.res.value)],
                             <<Ev("segment", "start"), Ev("segment", "end")>>)
               ELSE Catch(r, sent, t.res)

\* `await summaryService.generateSummary(...)` returns or throws; after it
\* processAudio runs to its end
Summarize(r) ==
  LET run == runs[r]
      transcription == run.transcription[1]
  IN /\ run.pc = "summary"
     /\ \E resp \in SummaryResponses :
          \E g \in {generateSummary(config, transcription.text, transcription.speakers, resp)} :
          \E sent \in {Logged(run, g.reqs)} :
             IF g.res.ok
               THEN IF NextStage(run.source, run.pc) = "assemble"
                      THEN Assemble(r, [sent EXCEPT !.log = Append(sent.log, Ev("summary", "end"))],
                                    g.res.value)
                      ELSE Continue(r, sent, <<>>)
               ELSE Catch(r, sent, g.res)

\* ------------------------------------------------------------------ InputSelector
Idle == InputShown(isProcessing, transcriptionResult, error)

\* runs are numbered as they start; no more than MaxRuns are started
MayStart == Cardinality(Started) + Len(pendingSubmits) < MaxRuns

OnlyInput(nextInput) ==
  /\ MayStart
  /\ input' = nextInput
  /\ UNCHANGED <<call, config, isProcessing, transcriptionResult, processingStep, error,
                 view, pendingSubmits, runs, records>>

\* the two buttons of InputSelector; the component not chosen is unmounted
SetInputMethod(method) ==
  /\ Idle
  /\ method # input.inputMethod
  /\ OnlyInput([InputMounted EXCEPT !.inputMethod = method])

\* handleDrag of FileUpload
HandleDrag(type) ==
  /\ Idle /\ input.inputMethod = "file"
  /\ input.dragActive # (type \in {"dragenter", "dragover"})
  /\ OnlyInput([input EXCEPT !.dragActive = type \in {"dragenter", "dragover"}])

\* validateFile(file) and, for a valid file, onFileUpload(file)
Upload(file) ==
  IF validateFile(file)
    THEN /\ MayStart
         /\ processAudio("file", file)
         /\ UNCHANGED pendingSubmits
    ELSE OnlyInput([input EXCEPT !.fileError = FileError(file), !.dragActive = FALSE])

\* handleDrop of FileUpload
HandleDrop(file) == Idle /\ input.inputMethod = "file" /\ Upload(file)

\* handleFileInput of FileUpload
HandleFileInput(file) ==
  /\ Idle /\ input.inputMethod = "file" /\ ~input.dragActive
  /\ Upload(file)

\* the "Tech Discussion Sample" button: onFileUpload(mockFile) without validation
SampleClick ==
  /\ Idle /\ input.inputMethod = "file"
  /\ MayStart
  /\ processAudio("file", MockFile)
  /\ UNCHANGED pendingSubmits

\* handleUrlChange of UrlInput; the field is disabled while isValidating
HandleUrlChange(text) ==
  /\ Idle /\ input.inputMethod = "url" /\ ~input.isValidating
  /\ text # input.url
  /\ OnlyInput([input EXCEPT !.url = text, !.error = ""])

\* handleSubmit of UrlInput up to its await; the button is disabled while
\* isValidating and for an empty field
HandleSubmit ==
  /\ Idle /\ input.inputMethod = "url" /\ ~input.isValidating
  /\ input.url # EmptyUrl
  /\ IF ~validateXSpaceUrl(input.url)
       THEN OnlyInput([input EXCEPT !.error = "Please enter a valid X Space URL"])
       ELSE /\ MayStart
            /\ input' = [input EXCEPT !.isValidating = TRUE, !.error = ""]
            /\ pendingSubmits' = Append(pendingSubmits, input.url)
            /\ UNCHANGED <<call, config, isProcessing, transcriptionResult, processingStep,
                           error, view, runs, records>>

\* the timer of handleSubmit fires: onUrlSubmit(url), whatever is rendered by now
SubmitTimer ==
  /\ pendingSubmits # <<>>
  /\ processAudio("url", Head(pendingSubmits))
  /\ pendingSubmits' = Tail(pendingSubmits)

\* the "Try Again" button of the error display
TryAgain ==
  /\ error # NoError
  /\ error' = NoError
  /\ UNCHANGED <<call, config, isProcessing, transcriptionResult, processingStep,
                 pendingSubmits, runs, records>>
  /\ Rendered(input, view)

\* ------------------------------------------------------------------ TranscriptionResult
Shown == transcriptionResult # 0
Data == records[transcriptionResult][1]

OnlyView(nextView) ==
  /\ view' = nextView
  /\ UNCHANGED <<call, config, isProcessing, transcriptionResult, processingStep, error,
                 input, pendingSubmits, runs>>

Tabs == {"transcript", "summary", "insights"}

SetActiveTab(tab) ==
  /\ Shown
  /\ tab # view.activeTab
  /\ OnlyView([view EXCEPT !.activeTab = tab])
  /\ UNCHANGED records

\* handleCopy: the clipboard write succeeds or is refused
HandleCopy(written) ==
  /\ Shown
  /\ written /\ ~view.copied
  /\ OnlyView([view EXCEPT !.copied = TRUE])
  /\ UNCHANGED records

\* the 2 s timer of handleCopy: setCopied(false)
CopiedTimer ==
  /\ Shown /\ view.copied
  /\ OnlyView([view EXCEPT !.copied = FALSE])
  /\ UNCHANGED records

\* filename.replace(/\.[^/.]+$/, '')
StripExtension(filename) ==
  IF Len(filename) >= 2 /\ filename[Len(filename) - 1] = "."
    THEN SubSeq(filename, 1, Len(filename) - 2) ELSE filename

\* a handleDownload that strips the extension in the record itself
HandleDownloadRenaming(format) ==
  /\ Shown
  /\ records' = [records EXCEPT ![transcriptionResult] =
                   Some([Data EXCEPT !.filename = StripExtension(Data.filename)])]
  /\ OnlyView([view EXCEPT !.downloaded =
                 Some([format |-> format,
                       filename |-> StripExtension(Data.filename) \o <<"_transcript.", format>>])])

\* handleDownload(format): the file the browser saves
HandleDownload(format) ==
  /\ Shown
  /\ LET saved == [format |-> format,
                   filename |-> StripExtension(Data.filename) \o <<"_transcript.", format>>]
     IN /\ view.downloaded # Some(saved)
        /\ OnlyView([view EXCEPT !.downloaded = Some(saved)])
  /\ UNCHANGED records

\* ------------------------------------------------------------------ specification
Stage(r) ==
  \/ Validate(r) \/ Metadata(r) \/ XMetadata(r) \/ AudioUrl(r) \/ Fetch(r)
  \/ AudioFile(r) \/ Wav(r) \/ Transcribe(r) \/ Summarize(r)

Next ==
  \/ \E r \in Runs : Stage(r)
  \/ \E method \in {"file", "url"} : SetInputMethod(method)
  \/ \E type \in {"dragenter", "dragover", "dragleave"} : HandleDrag(type)
  \/ \E file \in UserFiles : HandleDrop(file)
  \/ \E file \in UserFiles : HandleFileInput(file)
  \/ SampleClick
  \/ \E text \in UrlTexts : HandleUrlChange(text)
  \/ HandleSubmit
  \/ SubmitTimer
  \/ TryAgain
  \/ \E tab \in Tabs : SetActiveTab(tab)
  \/ \E written \in BOOLEAN : HandleCopy(written)
  \/ CopiedTimer
  \/ \E format \in {"txt", "json"} : HandleDownload(format)

Spec == Init /\ [][Next]_vars

\* ------------------------------------------------------------------ the services called on their own
\* the lines a summary response is made of
SummaryLines ==
  { <<"{", "\"summary\": \"Talk\"", ",", "\"sentiment\": \"positive\"", "}">>,
    <<"{", "\"sentiment\": \"happy\"", ",", "\"keyPoints\": \"kp\"", "}">>,
    <<"{", "\"sentiment\": 1", "}">>,
    <<"{", "\"sentiment\": \"mixed\"", ",", "}">>,
    <<"{", "talk", "}">>,
    <<"{", "\"summary\": \"\"", ",">>,
    <<"\"sentiment\": \"mixed\"", "}">>,
    <<"Summary:">>,
    <<"talk">>,
    <<"Sentiment:">>,
    <<" ", "Positive", " ">>,
    <<"Key Points:">>,
    <<"-", " ", "talk">>,
    <<" ">>,
    <<"no json here at all">> }

RECURSIVE JoinLines(_)
\* lines.join('\n')
JoinLines(lines) ==
  IF Len(lines) = 1 THEN lines[1]
  ELSE lines[1] \o <<"\n">> \o JoinLines(Tail(lines))

\* the response texts of at most MaxLines lines
ContentTexts ==
  {JoinLines(lines) : lines \in UNION {[1..n -> SummaryLines] : n \in 1..MaxLines}}

\* what the chat completions call is answered
ServiceSummaryResponses ==
  {FetchReject, NotOk(<<>>), NotOk(<<"Rate limit reached">>), BadJson,
   OkBody(EmptyData), OkBody([content |-> <<>>])}
    \cup {OkBody([content |-> c]) : c \in ContentTexts}

\* what the transcriptions call is answered
ServiceTranscribeResponses ==
  {FetchReject, NotOk(<<>>), NotOk(<<"Incorrect API key provided">>), BadJson,
   OkBody(EmptyData)}
    \cup {OkBody(d) : d \in TranscriptionAnswers}

\* one call is looked at per behaviour
Called(op, resp, out) ==
  /\ call = None
  /\ call' = Some([op |-> op, resp |-> resp, reqs |-> out.reqs, res |-> out.res])
  /\ UNCHANGED <<config, isProcessing, transcriptionResult, processingStep, error,
                 input, view, pendingSubmits, runs, records>>

\* transcriptionService.transcribeAudio(audioBlob, filename) is called and ends
CallTranscribeAudio ==
  /\ call = None
  /\ \E file \in {MockFile}, resp \in ServiceTranscribeResponses :
    Called("transcribeAudio", resp,
           transcribeAudio(config, Blob("audio/wav", file.name), file.name, resp))

\* summaryService.generateSummary(transcript, speakers) is called and ends
CallGenerateSummary ==
  /\ call = None
  /\ \E speakers \in {<<SpeakerLabel(1)>>}, resp \in ServiceSummaryResponses :
    Called("generateSummary", resp,
           generateSummary(config, <<"Hi. W">>, speakers, resp))

InitService ==
  /\ config \in AllConfigs
  /\ isProcessing = FALSE
  /\ transcriptionResult = 0
  /\ processingStep = ""
  /\ error = NoError
  /\ input = InputMounted
  /\ view = ViewMounted
  /\ pendingSubmits = <<>>
  /\ runs = [r \in Runs |-> NoRun]
  /\ records = [r \in Runs |-> None]
  /\ call = None

NextService == CallTranscribeAudio \/ CallGenerateSummary

SpecService == InitService /\ [][NextService]_vars

\* ------------------------------------------------------------------ the segmenter on its own
\* number of segments of a transcription answer (SpecSegmenter)
MaxSegments == 6

\* segments as the provider sends them: complete (after one hour), without
\* text and ending before it starts, without start and end, and (after one
\* hundred minutes) four characters in two seconds whose full stop is not
\* the last of them
ProviderSegments ==
  {[start |-> 3600, end |-> 3601, text |-> <<"W", "h", "y", "?">>],
   [start |-> 5, end |-> 1],
   [text |-> <<"H", "i", ".">>],
   [start |-> 6000, end |-> 6002, text |-> <<"v", "1", ".", "2">>]}

SegmentSequences == UNION {[1..n -> ProviderSegments] : n \in 0..MaxSegments}

SegmentAnswer(segments) == OkBody([text |-> <<"Why?">>, segments |-> segments])

\* transcribeAudio is called and the provider answers with segments
CallTranscribeSegments ==
  /\ call = None
  /\ \E segments \in SegmentSequences :
    Called("transcribeAudio", SegmentAnswer(segments),
           transcribeAudio(config, Blob("audio/wav", MockFile.name), MockFile.name,
                           SegmentAnswer(segments)))

\* formatTranscriptWithTimestamps is called with the segments of a transcript
CallFormatTranscript ==
  /\ call = None
  /\ \E segments \in SegmentSequences :
    Called("formatTranscriptWithTimestamps", SegmentAnswer(segments),
           [reqs |-> <<>>,
            res |-> Ok(formatTranscriptWithTimestamps(processSegments(segments)))])

\* processAudio builds its record from a transcript and a summary
CallTranscriptionData ==
  /\ call = None
  /\ \E segments \in SegmentSequences :
    \E t \in {TranscribeResponse(SegmentAnswer(segments)).value} :
      Called("TranscriptionData", SegmentAnswer(segments),
             [reqs |-> <<>>,
              res |-> Ok([speakers |-> t.speakers,
                          record |-> TranscriptionData(
                            [NoRun EXCEPT !.source = "file", !.input = Some(MockFile),
                                          !.duration = MockFile.duration,
                                          !.transcription = Some(t)],
                            parseTextResponse(<<"talk">>, t.speakers))])])

InitSegmenter ==
  /\ config = [openaiApiKey |-> "sk-test", proxyUrl |-> "undefined",
               proxyToken |-> "undefined", twitterBearerToken |-> <<>>]
  /\ isProcessing = FALSE
  /\ transcriptionResult = 0
  /\ processingStep = ""
  /\ error = NoError
  /\ input = InputMounted
  /\ view = ViewMounted
  /\ pendingSubmits = <<>>
  /\ runs = [r \in Runs |-> NoRun]
  /\ records = [r \in Runs |-> None]
  /\ call = None

NextSegmenter == CallTranscribeSegments \/ CallFormatTranscript \/ CallTranscriptionData

SpecSegmenter == InitSegmenter /\ [][NextSegmenter]_vars

\* ------------------------------------------------------------------ the WAV encoder on its own
\* number of frames of a decoded buffer (SpecWav)
MaxFrames == 2

\* samples: -1.5, -3 * 2^-16, 0, 0.5 and 1.25
Samples == {-98304, -3, 0, 32768, 81920}

\* the decoded buffers: up to MaxFrames frames of one or two channels, and
\* 45000 mono frames at 16000 Hz that go through -1.0, -0.5, 0, 0.5 and 1.0
AudioBuffers ==
  {AudioBuffer(length, channels, rate, data) :
     <<length, channels, rate, data>> \in
       UNION {UNION {{<<l, c, r, d>> : r \in {16000, 44100},
                                       d \in [0..c - 1 -> [0..l - 1 -> Samples]]}
                       : c \in {1, 2}}
                : l \in 0..MaxFrames}}
    \cup {AudioBuffer(45000, 1, 16000, [c \in {0} |-> [i \in 0..44999 |-> ((i % 5) - 2) * 32768]])}

\* audioBufferToWav(buffer) is called (by convertToWav, with what was decoded)
CallAudioBufferToWav ==
  /\ call = None
  /\ \E buffer \in AudioBuffers :
       Called("audioBufferToWav", buffer,
              [reqs |-> <<>>, res |-> Ok(audioBufferToWav(buffer))])

InitWav == InitSegmenter

SpecWav == InitWav /\ [][CallAudioBufferToWav]_vars

\* ------------------------------------------------------------------ the response parser on its own
\* number of lines of a response text (SpecParser)
MaxParsedLines == 3

\* lines of response texts: JSON objects on one line, the two halves of a
\* JSON object on two lines, section headers, plain lines and bullet lines,
\* a header with a sentiment word behind it and a bullet line with the
\* words of two headers
ParserLines ==
  { <<"{", "\"keyPoints\": [\"kp\"]", ",", " ", "\"topics\": [\"ai\"]", ",", " ",
      "\"actionItems\": [\"do\"]", ",", " ", "\"participants\": [\"Ann\"]", "}">>,
    <<"{", "\"sentiment\": \"happy\"", ",", "\"keyPoints\": \"kp\"", ",",
      "\"participants\": null", "}">>,
    <<"{", "\"summary\": \"Talk\"", ",", " ", "\"sentiment\": \"mixed\"", "}">>,
    <<"{", "\"summary\": \"\"", ",">>,
    <<"\"sentiment\": \"positive\"", "}">>,
    <<"Summary:">>,
    <<"no json here at all">>,
    <<"Sentiment:">>,
    <<" ", "Positive", " ", "negative", " ">>,
    <<"Key Points:">>,
    <<"-", " ", "talk">>,
    <<"Topics:">>,
    <<"Action Items:">>,
    <<"&bull;", "talk">>,
    <<"Sentiment:", " ", "Positive">>,
    <<"-", " ", "Summary of topics">> }

ParserTexts ==
  {JoinLines(lines) : lines \in UNION {[1..n -> ParserLines] : n \in 1..MaxParsedLines}}

\* the speakers handed to generateSummary
CallerSpeakers == <<SpeakerLabel(1), SpeakerLabel(2)>>

\* generateSummary is called and the provider answers with a text
CallSummarize ==
  /\ call = None
  /\ \E content \in ParserTexts :
       Called("generateSummary", OkBody([content |-> content]),
              generateSummary(config, <<"Why?">>, CallerSpeakers,
                              OkBody([content |-> content])))

InitParser == InitSegmenter

SpecParser == InitParser /\ [][CallSummarize]_vars

\* ------------------------------------------------------------------ the outbound calls on their own
\* what the spaces API is answered: the fetch rejects, a non-OK response, a
\* body that is no JSON, a body without data, a space, a space without title
OutboundMetadataResponses ==
  {FetchReject, NotOk(<<>>), BadJson, OkBody(EmptyData), OkBody(SpaceAnswer),
   OkBody([data |-> [title |-> <<>>, state |-> "live"]])}

\* xSpaceService.extractSpaceMetadata(spaceUrl) is called and ends
CallExtractSpaceMetadata ==
  /\ call = None
  /\ \E spaceUrl \in UrlTexts, resp \in OutboundMetadataResponses :
       Called("extractSpaceMetadata", [spaceUrl |-> spaceUrl, answer |-> resp],
              extractSpaceMetadata(config, spaceUrl, resp))

\* extractAudioUrl(spaceUrl) is called (by processXSpace) and ends
CallExtractAudioUrl ==
  /\ call = None
  /\ \E spaceUrl \in UrlTexts, probes \in [1..3 -> ProbeOutcomes], stream \in StreamResponses :
       Called("extractAudioUrl", [spaceUrl |-> spaceUrl, probes |-> probes, stream |-> stream],
              extractAudioUrl(config, spaceUrl, probes, stream))

InitOutbound == InitService

NextOutbound ==
  \/ CallExtractSpaceMetadata
  \/ CallExtractAudioUrl
  \/ CallTranscribeAudio
  \/ CallGenerateSummary

SpecOutbound == InitOutbound /\ [][NextOutbound]_vars

\* ------------------------------------------------------------------ properties of a submission
\* the stages of the pipeline, by the name the log gives them: WAV conversion,
\* transcription request, segmenting, summary request, assembly of the record
Pipeline == <<"wav", "transcribe", "segment", "summary", "assemble">>

At(log, stage, what) ==
  {i \in 1..Len(log) : log[i].stage = stage /\ log[i].what = what}

\* where a stage begins: its start, and the request it sends
Begun(log, stage) == At(log, stage, "start") \cup At(log, stage, "request")

ProviderRequests(log, kind) ==
  {i \in 1..Len(log) : log[i].what = "request" /\ log[i].kind = kind}

Ended(r) == runs[r].outcome # None
Outcome(r) == runs[r].outcome[1]
Failed(r) == Ended(r) /\ Outcome(r).kind = "error"
Succeeded(r) == Ended(r) /\ Outcome(r).kind = "result"
\* the call a failed invocation failed in
FailedAt(r) == runs[r].log[Len(runs[r].log)].stage

C3_NothingAfterFailure ==
  \A r \in Runs :
    LET log == runs[r].log
    IN /\ \A i \in 1..Len(log) :
            log[i].what = "fail" => i = Len(log) /\ runs[r].pc = "done"
       /\ (Failed(r) /\ FailedAt(r) \in {"audioUrl", "fetch"}) =>
            /\ \A stage \in {"wav", "transcribe", "summary"} : Begun(log, stage) = {}
            /\ \A c \in runs[r].calls : c.kind \notin ProviderKinds

\* the source of a space could not be resolved or fetched
C3_Witness ==
  /\ \E r \in Runs : Failed(r) /\ FailedAt(r) = "audioUrl"
  /\ \E r \in Runs : Failed(r) /\ FailedAt(r) = "fetch"

C5_NoRetry ==
  \A r \in Runs :
    LET log == runs[r].log
    IN /\ \A kind \in ProviderKinds : Cardinality(ProviderRequests(log, kind)) <= 1
       /\ \A i \in 1..Len(log) :
            log[i].what = "fail" =>
              /\ \A j \in 1..Len(log) : log[j].what = "request" => j < i
              /\ Failed(r)

\* a transcription request failed
C5_Witness ==
  \E r \in Runs :
    /\ Failed(r) /\ FailedAt(r) = "transcribe"
    /\ Cardinality(ProviderRequests(runs[r].log, "transcribe")) = 1

\* C6: a record exists exactly for the invocations that succeeded, and once it
\* exists no step changes it.
C6_RecordNeverChanges ==
  [][\A r \in Runs :
       /\ records[r] # None <=> Succeeded(r)
       /\ records[r] # None => records'[r] = records[r]]_vars

\* the record has been looked at in another tab, copied and downloaded
C6_Witness ==
  /\ Shown
  /\ view.activeTab # "summary" /\ view.copied /\ view.downloaded # None
  /\ records[transcriptionResult] # None

\* C7: invocations share no state: while an invocation is in flight the
\* processing flag it set is set and the stage label is the one it wrote last.
C7_NoSharedState ==
  \A r \in InFlight : isProcessing /\ processingStep = runs[r].label

\* C10: one route for all calls: with a forwarder configured every request of
\* an invocation is a POST to the forwarder, without one every request goes
\* to its target.
C10_OneRoute ==
  \A r \in Runs :
    \A c \in runs[r].calls :
      IF config.proxyUrl # "undefined" /\ config.proxyToken # "undefined"
        THEN c.via = "proxy" /\ c.method = "POST"
        ELSE c.via = "direct"

\* ------------------------------------------------------------------ properties of the services
\* the response carries a non-empty content
CarriesContent(resp) ==
  resp.kind = "ok" /\ Has(resp.data, "content") /\ resp.data.content # <<>>

SummaryCalled == call # None /\ call[1].op = "generateSummary"

\* C8: with the key set and a response that carries content, generateSummary
\* returns a result whose sentiment is one of the four values; it throws only
\* without the key, for a request that failed or was not OK, or for a
\* response without content.
C8_SummaryParsingTotal ==
  SummaryCalled =>
    LET resp == call[1].resp
        res == call[1].res
    IN /\ (config.openaiApiKey # "" /\ CarriesContent(resp)) =>
            res.ok /\ res.value.sentiment \in ValidSentiments
       /\ ~res.ok =>
            \/ config.openaiApiKey = ""
            \/ resp.kind \in {"reject", "notok"}
            \/ ~CarriesContent(resp)

\* every way of parsing ended in a result: a JSON object, a brace block that
\* is no JSON, text with a section header, text with neither
C8_Witness ==
  /\ SummaryCalled /\ call[1].res.ok
  /\ CarriesContent(call[1].resp)
  /\ call[1].resp.data.content = <<"{", "talk", "}", "\n", "no json here at all">>
  /\ call[1].res.value.summary = FallbackSummary

\* C9: without the key a call of transcribeAudio or generateSummary sends no
\* request and throws the configuration error.
C9_NoRequestWithoutKey ==
  (call # None /\ config.openaiApiKey = "") =>
    /\ call[1].reqs = <<>>
    /\ ~call[1].res.ok
    /\ call[1].res.msg = MsgNoKey

\* generateSummary was called without the key, with a forwarder configured
C9_Witness ==
  /\ SummaryCalled
  /\ config.openaiApiKey = "" /\ config.proxyUrl # "undefined"
  /\ CarriesContent(call[1].resp)

\* ------------------------------------------------------------------ properties of the segmenter
OpCalled(op) == call # None /\ call[1].op = op
\* the segments the provider sent, and what the call returned
SentSegments == call[1].resp.data.segments
Returned == call[1].res.value

\* C11: the segment produced at index i (0-based) of the provider's sequence
\* is labelled "Speaker k" with k = floor(i/5) + 1, whatever its start, end
\* and text; a transcript of one to five segments has the one speaker
\* "Speaker 1".
C11_SpeakerLabels ==
  OpCalled("transcribeAudio") =>
    /\ call[1].res.ok
    /\ Len(Returned.segments) = Len(SentSegments)
    /\ \A i \in 0..Len(SentSegments) - 1 :
         Returned.segments[i + 1].speaker = <<"Speaker ">> \o NumToString((i \div 5) + 1)
    /\ Len(SentSegments) \in 1..5 => Returned.speakers = << <<"Speaker ", "1">> >>

\* six segments: the sixth is the first of the second speaker
C11_Witness ==
  /\ OpCalled("transcribeAudio")
  /\ Len(SentSegments) = 6
  /\ Returned.segments[5].speaker = <<"Speaker ", "1">>
  /\ Returned.segments[6].speaker = <<"Speaker ", "2">>
  /\ SentSegments[5] # SentSegments[1]

\* C12: the speakers of a transcript are the distinct speaker values of its
\* segments, each once, in the order of their first appearance; there are
\* none exactly when there are no segments; the participant count of the
\* record is the number of speakers.
C12_SpeakersOfSegments ==
  /\ OpCalled("transcribeAudio") =>
       LET segments == Returned.segments
           speakers == Returned.speakers
           firstAt(sp) == CHOOSE i \in 1..Len(segments) :
                            /\ segments[i].speaker = sp
                            /\ \A k \in 1..i - 1 : segments[k].speaker # sp
       IN /\ {speakers[j] : j \in 1..Len(speakers)} =
               {segments[i].speaker : i \in 1..Len(segments)}
          /\ \A j, k \in 1..Len(speakers) :
               j < k => speakers[j] # speakers[k] /\ firstAt(speakers[j]) < firstAt(speakers[k])
          /\ speakers = <<>> <=> SentSegments = <<>>
  /\ OpCalled("TranscriptionData") =>
       Returned.record.participants = Len(Returned.speakers)

\* a record with two participants
C12_Witness ==
  /\ OpCalled("TranscriptionData")
  /\ Len(SentSegments) = 6
  /\ Returned.speakers = << <<"Speaker ", "1">>, <<"Speaker ", "2">> >>
  /\ Returned.record.participants = 2

\* C13 as stated: the confidence of a transcript is 0 for no segments and
\* otherwise lies between 0 and 0.95, and the estimate of every segment lies
\* between 0.8 and 0.95.
C13_ConfidenceBounded ==
  OpCalled("transcribeAudio") =>
    LET segments == Returned.segments
        confidence == Returned.confidence
    IN /\ segments = <<>> => confidence.num = 0
       /\ ~DblLess(confidence, Dbl(0, 1, 0))
       /\ ~DblLess(DblLiteral(95), confidence)
       /\ \A i \in 1..Len(segments) :
            /\ ~DblLess(SegmentConfidence(segments[i]), DblLiteral(80))
            /\ ~DblLess(DblLiteral(95), SegmentConfidence(segments[i]))

\* C14: a provider segment without start, end or text is taken with start 0,
\* end 0 or text "" and with its other fields as they are, and neither
\* transcribeAudio nor formatTranscriptWithTimestamps throws over such
\* segments.
C14_MalformedSegments ==
  /\ OpCalled("transcribeAudio") =>
       /\ call[1].res.ok
       /\ Len(Returned.segments) = Len(SentSegments)
       /\ \A i \in 1..Len(SentSegments) :
            LET sent == SentSegments[i]
                made == Returned.segments[i]
            IN /\ made.start = IF "start" \in DOMAIN sent THEN sent.start ELSE 0
               /\ made.end = IF "end" \in DOMAIN sent THEN sent.end ELSE 0
               /\ made.text = IF "text" \in DOMAIN sent THEN sent.text ELSE <<>>
  /\ OpCalled("formatTranscriptWithTimestamps") =>
       call[1].res.ok /\ Len(FormattedLines(Returned)) = Len(SentSegments)

\* a transcript over a segment without text and a segment without times
C14_Witness ==
  /\ OpCalled("transcribeAudio")
  /\ call[1].res.ok
  /\ Len(SentSegments) = 2
  /\ DOMAIN SentSegments[1] = {"start", "end"}
  /\ DOMAIN SentSegments[2] = {"text"}
  /\ Returned.segments[1].start = 5

\* ------------------------------------------------------------------ properties of the WAV encoder
\* the little-endian numbers at a byte offset of an encoded container
U16At(wav, offset) == wav[offset] + 256 * wav[offset + 1]
U32At(wav, offset) == U16At(wav, offset) + 65536 * U16At(wav, offset + 2)

\* the 16-bit pattern of a sample: of -1.0 and below, -0.5, -3 * 2^-16, 0,
\* 0.5, and 1.0 and above
Pcm16(x) ==
  CASE x <= -65536 -> 32768
    [] x = -32768 -> 49152
    [] x = -3 -> 65535
    [] x = 0 -> 0
    [] x = 32768 -> 16383
    [] OTHER -> 32767

\* C15: for a buffer of L frames, C channels and rate R the container has
\* 44 + 2*L*C bytes, its header fields hold 36 + 2*L*C, 16, 1, C, R, R*C*2,
\* C*2, 16 and 2*L*C at bytes 4, 16, 20, 22, 24, 28, 32, 34 and 40, and the
\* sample of frame i, channel c is at byte 44 + 2*(i*C + c).
C15_WavLayout ==
  OpCalled("audioBufferToWav") =>
    LET buffer == call[1].resp
        wav == Returned
        L == buffer.length
        C == buffer.numberOfChannels
        R == buffer.sampleRate
    IN /\ DOMAIN wav = 0..(44 + 2 * L * C) - 1
       /\ U32At(wav, 4) = 36 + 2 * L * C
       /\ U32At(wav, 16) = 16
       /\ U16At(wav, 20) = 1
       /\ U16At(wav, 22) = C
       /\ U32At(wav, 24) = R
       /\ U32At(wav, 28) = R * C * 2
       /\ U16At(wav, 32) = C * 2
       /\ U16At(wav, 34) = 16
       /\ U32At(wav, 40) = 2 * L * C
       /\ \A i \in 0..L - 1 : \A c \in 0..C - 1 :
            U16At(wav, 44 + 2 * (i * C + c)) = Pcm16(buffer.channelData[c][i])

\* two stereo frames at 44100 Hz: 52 bytes, the second frame of the left
\* channel behind the first frame of the right channel
C15_Witness ==
  /\ OpCalled("audioBufferToWav")
  /\ call[1].resp.length = 2
  /\ call[1].resp.numberOfChannels = 2
  /\ call[1].resp.sampleRate = 44100
  /\ call[1].resp.channelData[0][1] = 81920
  /\ call[1].resp.channelData[1][0] = -98304
  /\ DOMAIN Returned = 0..51
  /\ U16At(Returned, 46) = 32768
  /\ U16At(Returned, 48) = 32767

\* ------------------------------------------------------------------ properties of the upload
\* the formats the README names as supported, by file extension
DocumentedFormats == {"mp3", "wav", "m4a", "flac", "ogg"}

\* processAudio was started with the file
HandedOver(file) ==
  \E r \in Runs :
    runs[r].pc = "idle" /\ runs'[r].pc # "idle" /\ runs'[r].input = Some(file)

\* C16 as stated: a file of a documented format of at most 100 MB that is
\* dropped or picked is handed to the pipeline, and a file of more than
\* 100 MB that is dropped or picked is not.
C16_UploadValidation ==
  [][\A file \in UserFiles :
       (HandleDrop(file) \/ HandleFileInput(file)) =>
         /\ (file.ext \in DocumentedFormats /\ file.size <= MaxSize) => HandedOver(file)
         /\ file.size > MaxSize => runs' = runs]_vars

\* ------------------------------------------------------------------ properties of the response parser
\* the text the provider answered with
Content == call[1].resp.data.content

\* the brace block of a text: from its first '{' to its last '}', if the
\* last '}' stands behind the first '{'
BraceBlock(content) ==
  LET opens == {i \in 1..Len(content) : content[i] = "{"}
      closes == {j \in 1..Len(content) : content[j] = "}"}
      found == \E i \in opens : \E j \in closes : i < j
  IN IF found
       THEN [found |-> TRUE,
             text |-> SubSeq(content,
                             CHOOSE i \in opens : \A k \in opens : i <= k,
                             CHOOSE j \in closes : \A k \in closes : k <= j)]
       ELSE [found |-> FALSE, text |-> <<>>]

\* the text has a brace block and it is a JSON object
ParsesAsJson(content) ==
  BraceBlock(content).found /\ JsonParse(BraceBlock(content).text).ok

ParsedObject(content) == JsonParse(BraceBlock(content).text).value

\* C17: when the text from the first '{' to the last '}' of the response
\* exists and is JSON, the result is built from that object alone; otherwise,
\* and only then, it is the result of the scan for text sections.
C17_ParsingOrder ==
  OpCalled("generateSummary") =>
    /\ call[1].res.ok
    /\ Returned = IF ParsesAsJson(Content)
                    THEN FromJson(ParsedObject(Content), CallerSpeakers)
                    ELSE parseTextResponse(Content, CallerSpeakers)

\* a JSON object between a summary header and a plain line: the summary is
\* the one of the object, not the line the scan would have taken
C17_Witness ==
  /\ OpCalled("generateSummary")
  /\ Content = <<"Summary:", "\n", "{", "\"summary\": \"Talk\"", ",", " ",
                 "\"sentiment\": \"mixed\"", "}", "\n", "no json here at all">>
  /\ Returned.summary = <<"Talk">>
  /\ parseTextResponse(Content, CallerSpeakers).summary = <<"no json here at all">>

\* C18: on the JSON path keyPoints, topics and actionItems are the parsed
\* arrays, or empty when the member is absent or no array; sentiment is the
\* parsed value when it is one of the four words and neutral otherwise;
\* participants is the parsed array, or the caller's speakers when absent.
C18_JsonFields ==
  (OpCalled("generateSummary") /\ ParsesAsJson(Content)) =>
    LET parsed == ParsedObject(Content)
        isArray(field) == field \in DOMAIN parsed /\ parsed[field].type = "array"
    IN /\ \A field \in {"keyPoints", "topics", "actionItems"} :
            Returned[field] = IF isArray(field) THEN parsed[field].value ELSE <<>>
       /\ Returned.sentiment =
            IF /\ "sentiment" \in DOMAIN parsed
               /\ parsed.sentiment.type = "string"
               /\ parsed.sentiment.value \in {<<"positive">>, <<"negative">>,
                                              <<"neutral">>, <<"mixed">>}
              THEN parsed.sentiment.value[1]
              ELSE "neutral"
       /\ isArray("participants") => Returned.participants = parsed.participants.value
       /\ "participants" \notin DOMAIN parsed => Returned.participants = CallerSpeakers

\* an object with an unknown sentiment, key points that are no array and a
\* null for the participants
C18_Witness ==
  /\ OpCalled("generateSummary")
  /\ Content = <<"{", "\"sentiment\": \"happy\"", ",", "\"keyPoints\": \"kp\"", ",",
                 "\"participants\": null", "}">>
  /\ Returned.sentiment = "neutral"
  /\ Returned.keyPoints = <<>>
  /\ Returned.participants = CallerSpeakers

\* the words that make a line a section header
MarkerWords == {"summary", "key points", "takeaways", "topics", "sentiment", "action"}

HasMarker(line) ==
  \E i \in 1..Len(line) : \E w \in MarkerWords : TokenIncludes(line[i], w)

\* C19: a response without brace block and without a line that has a section
\* marker gives the placeholder summary, the placeholder key point, one
\* placeholder topic, the sentiment neutral, no action items and the
\* caller's speakers.
C19_Placeholders ==
  (OpCalled("generateSummary") /\ ~BraceBlock(Content).found /\ ~HasMarker(Content)) =>
    /\ call[1].res.ok
    /\ Returned.summary = <<"Summary could not be generated.">>
    /\ Returned.keyPoints = << <<"Key points could not be extracted.">> >>
    /\ Len(Returned.topics) = 1
    /\ Returned.sentiment = "neutral"
    /\ Returned.actionItems = <<>>
    /\ Returned.participants = CallerSpeakers

C19_Witness ==
  /\ OpCalled("generateSummary")
  /\ Content = <<"no json here at all">>
  /\ Returned.summary = <<"Summary could not be generated.">>

\* the lines of a text that are not blank, trimmed
ScannedLines(content) ==
  LET lines == NonBlankLines(content)
  IN [k \in 1..Len(lines) |-> Trim(lines[k])]

\* the section the cursor is in at line k: that of the last header before it
CursorAt(lines, k) ==
  LET headers == {m \in 1..k - 1 : HasMarker(lines[m])}
  IN IF headers = {} THEN ""
     ELSE MarkerSection(lines[CHOOSE m \in headers : \A h \in headers : h <= m])

IsBullet(line) == line # <<>> /\ line[1] \in {"-", "&bull;"}

\* the lines that are no headers, stand in the section and are bullets (or
\* are none), in their order
LinesOf(lines, section, bullets) ==
  LET picked == SelectSeq([k \in 1..Len(lines) |-> k],
                          LAMBDA k : /\ ~HasMarker(lines[k])
                                     /\ CursorAt(lines, k) = section
                                     /\ IsBullet(lines[k]) = bullets)
  IN [n \in 1..Len(picked) |-> lines[picked[n]]]

\* a bullet line without its bullet and the white space behind it
Unbulleted(line) ==
  LET rest == {i \in 2..Len(line) : line[i] \notin {" ", "\n"}}
  IN IF rest = {} THEN <<>>
     ELSE SubSeq(line, CHOOSE i \in rest : \A k \in rest : i <= k, Len(line))

RECURSIVE Paragraph(_)
\* lines joined by single spaces
Paragraph(lines) ==
  IF lines = <<>> THEN <<>>
  ELSE IF Len(lines) = 1 THEN lines[1]
  ELSE lines[1] \o <<" ">> \o Paragraph(Tail(lines))

\* the sentiment words of a line, by the position of the token they are in
SentimentWordsAt(line) ==
  {<<i, w>> \in (1..Len(line)) \X {"positive", "negative", "neutral", "mixed"} :
     TokenIncludes(line[i], w)}

\* the sentiment after the scan: the leftmost word of the last line of the
\* sentiment section that has one
ScannedSentiment(lines) ==
  LET hits == {k \in 1..Len(lines) :
                 /\ ~HasMarker(lines[k])
                 /\ CursorAt(lines, k) = "sentiment"
                 /\ SentimentWordsAt(lines[k]) # {}}
      last == CHOOSE k \in hits : \A h \in hits : h <= k
      words == SentimentWordsAt(lines[last])
  IN IF hits = {} THEN "neutral"
     ELSE (CHOOSE p \in words : \A q \in words : p[1] <= q[1])[2]

\* C20: on the text path, a bullet line that is no header goes (without its
\* prefix) to keyPoints, topics or actionItems exactly when the cursor is in
\* that section; a plain line that is no header goes to the summary exactly
\* when the cursor is in the summary section; the sentiment is the leftmost
\* sentiment word of the last line of the sentiment section that has one;
\* lines before the first header contribute nothing.  A list that stays
\* empty is given as its placeholder.
C20_TextSections ==
  (OpCalled("generateSummary") /\ ~ParsesAsJson(Content)) =>
    LET lines == ScannedLines(Content)
        bullets(section) ==
          LET found == LinesOf(lines, section, TRUE)
          IN [n \in 1..Len(found) |-> Unbulleted(found[n])]
        paragraph == Paragraph(LinesOf(lines, "summary", FALSE))
    IN /\ Returned.keyPoints = IF bullets("keypoints") = <<>>
                                 THEN << <<"Key points could not be extracted.">> >>
                                 ELSE bullets("keypoints")
       /\ Returned.topics = IF bullets("topics") = <<>>
                              THEN << <<"Topics could not be identified.">> >>
                              ELSE bullets("topics")
       /\ Returned.actionItems = bullets("actions")
       /\ Returned.summary = IF paragraph = <<>>
                               THEN <<"Summary could not be generated.">>
                               ELSE paragraph
       /\ Returned.sentiment = ScannedSentiment(lines)

\* a line before the first header, then the sentiment section with a line
\* of two sentiment words
C20_Witness ==
  /\ OpCalled("generateSummary")
  /\ Content = <<"-", " ", "talk", "\n", "Sentiment:", "\n",
                 " ", "Positive", " ", "negative", " ">>
  /\ Returned.sentiment = "positive"
  /\ Returned.keyPoints = << <<"Key points could not be extracted.">> >>

\* ------------------------------------------------------------------ properties of the confidence estimate
\* the last character of a text is ch
EndsWith(text, ch) == text # <<>> /\ text[Len(text)] = ch

\* min(0.95, 0.8 + a + b) for the two additions of a segment, summed as the
\* operators of JavaScript sum them
ScoreOf(a, b) ==
  LET paced == IF a THEN DblAdd(DblLiteral(80), DblLiteral(10)) ELSE DblLiteral(80)
  IN DblMin(IF b THEN DblAdd(paced, DblLiteral(5)) ELSE paced, DblLiteral(95))

\* C21 as stated: the estimate of a segment is min(0.95, 0.8 + a + b) with
\* a = 0.1 exactly when textLength / max(end - start, 1) lies strictly
\* between 2 and 8 and b = 0.05 exactly when the text ends with '.' or '?';
\* the confidence of a transcript of one segment is that estimate.
C21_SegmentScore ==
  OpCalled("transcribeAudio") =>
    LET segments == Returned.segments
        stated(seg) ==
          LET d == Max(seg.end - seg.start, 1)
          IN ScoreOf(Len(seg.text) > 2 * d /\ Len(seg.text) < 8 * d,
                     EndsWith(seg.text, ".") \/ EndsWith(seg.text, "?"))
    IN /\ \A i \in 1..Len(segments) : SegmentConfidence(segments[i]) = stated(segments[i])
       /\ Len(segments) = 1 => Returned.confidence = stated(segments[1])

\* ------------------------------------------------------------------ properties of the segment times
\* C22 as stated: every segment of a transcript returned by transcribeAudio
\* has start >= 0 and end >= start, whatever the provider sent: segments
\* without start or end, and segments whose times are inverted.
C22_SegmentTimes ==
  OpCalled("transcribeAudio") /\ call[1].res.ok =>
    \A i \in 1..Len(Returned.segments) :
      /\ Returned.segments[i].start >= 0
      /\ Returned.segments[i].end >= Returned.segments[i].start

\* ------------------------------------------------------------------ properties of the formatted transcript
\* a number below 100 in two digits
TwoDigits(n) == <<DigitChar(n \div 10), DigitChar(n % 10)>>

\* C23: the formatted transcript has one line "[MM:SS] <speaker>: <text>"
\* per segment, in segment order, the lines joined by a blank line; for a
\* start s >= 0 MM is floor(s/60) in at least two digits, not wrapped at 60
\* (6000 gives "100:00", 3600 gives "60:00"), and SS is floor(s mod 60) in
\* two digits, 00..59.
C23_FormattedTranscript ==
  OpCalled("formatTranscriptWithTimestamps") =>
    LET segments == processSegments(SentSegments)
        lines == FormattedLines(Returned)
        MM(s) == IF s \div 60 < 100 THEN TwoDigits(s \div 60) ELSE Digits(s \div 60)
        SS(s) == TwoDigits(s % 60)
    IN /\ Len(lines) = Len(segments)
       /\ \A i \in 1..Len(segments) :
            LET s == segments[i].start
            IN /\ s >= 0
               /\ lines[i] = <<"[">> \o MM(s) \o <<":">> \o SS(s) \o <<"] ">> \o
                               segments[i].speaker \o <<": ">> \o segments[i].text
               /\ s = 6000 => SubSeq(lines[i], 1, 8) = <<"[", "1", "0", "0", ":", "0", "0", "] ">>
               /\ s = 3600 => SubSeq(lines[i], 1, 7) = <<"[", "6", "0", ":", "0", "0", "] ">>

\* a transcript of three segments that start at 5 s, at one hour and at one
\* hundred minutes
C23_Witness ==
  /\ OpCalled("formatTranscriptWithTimestamps")
  /\ Returned = <<"[", "0", "0", ":", "0", "5", "] ", "Speaker ", "1", ": ", "\n\n",
                  "[", "6", "0", ":", "0", "0", "] ", "Speaker ", "1", ": ",
                    "W", "h", "y", "?", "\n\n",
                  "[", "1", "0", "0", ":", "0", "0", "] ", "Speaker ", "1", ": ",
                    "v", "1", ".", "2">>

\* ------------------------------------------------------------------ properties of the encoded samples
\* the signed little-endian 16-bit number at a byte offset
S16At(wav, offset) ==
  IF U16At(wav, offset) >= 32768 THEN U16At(wav, offset) - 65536 ELSE U16At(wav, offset)

\* C24: every encoded sample lies in -32768..32767; the input x is clamped
\* to [-1, 1] and stored as trunc(x * 32768) when negative and as
\* trunc(x * 32767) otherwise, so -1 and below give -32768, 1 and above give
\* 32767 and 0 gives 0.  With x in units of 2^-16, x * 32768 is x / 2 and
\* x * 32767 is x * 32767 / 65536.
C24_SampleRange ==
  OpCalled("audioBufferToWav") =>
    LET buffer == call[1].resp
        C == buffer.numberOfChannels
    IN \A i \in 0..buffer.length - 1 : \A c \in 0..C - 1 :
         LET x == buffer.channelData[c][i]
             clamped == IF x < -65536 THEN -65536 ELSE IF x > 65536 THEN 65536 ELSE x
             v == S16At(Returned, 44 + 2 * (i * C + c))
         IN /\ v \in -32768..32767
            /\ clamped < 0 => v <= 0 /\ (-v) * 2 <= -clamped /\ -clamped < (-v + 1) * 2
            /\ clamped >= 0 => v >= 0 /\ clamped * 32767 - v * 65536 \in 0..65535
            /\ x <= -65536 => v = -32768
            /\ x >= 65536 => v = 32767
            /\ x = 0 => v = 0

\* two stereo frames: 1.25 and -1.5, then -3 * 2^-16 (-1.5 after scaling,
\* stored as -1) and 0.5 (16383.5, stored as 16383)
C24_Witness ==
  /\ OpCalled("audioBufferToWav")
  /\ call[1].resp.length = 2
  /\ call[1].resp.numberOfChannels = 2
  /\ call[1].resp.channelData[0] = (0 :> 81920) @@ (1 :> -3)
  /\ call[1].resp.channelData[1] = (0 :> -98304) @@ (1 :> 32768)
  /\ S16At(Returned, 44) = 32767
  /\ S16At(Returned, 46) = -32768
  /\ S16At(Returned, 48) = -1
  /\ S16At(Returned, 50) = 16383

\* ------------------------------------------------------------------ properties of the forwarder
\* the settings without a forwarder
Unforwarded(c) == [c EXCEPT !.proxyUrl = "undefined", !.proxyToken = "undefined"]

\* the requests of the call as they go out without a forwarder: the
\* fetch(url, options) calls that the forwarded requests wrap
Wrapped ==
  LET c == Unforwarded(config)
      op == call[1].op
      args == call[1].resp
  IN CASE op = "transcribeAudio" ->
            transcribeAudio(c, Blob("audio/wav", MockFile.name), MockFile.name, args).reqs
       [] op = "generateSummary" ->
            generateSummary(c, <<"Hi. W">>, <<SpeakerLabel(1)>>, args).reqs
       [] op = "extractSpaceMetadata" ->
            extractSpaceMetadata(c, args.spaceUrl, args.answer).reqs
       [] op = "extractAudioUrl" ->
            extractAudioUrl(c, args.spaceUrl, args.probes, args.stream).reqs

\* C25 as stated: a call sent through the forwarder is a POST to the
\* forwarding endpoint whose url, method, headers and body fields equal the
\* url, method, headers and body of the call it wraps, for the calls of the
\* source resolver, of the transcription (multipart audio body) and of the
\* summary (JSON body).
C25_ForwardedUnchanged ==
  call # None =>
    /\ Len(call[1].reqs) = Len(Wrapped)
    /\ \A i \in 1..Len(call[1].reqs) :
         LET sent == call[1].reqs[i]
             wrapped == Wrapped[i]
         IN sent.via = "proxy" =>
              /\ wrapped.via = "direct"
              /\ sent.target = <<config.proxyUrl>>
              /\ sent.payload.method = "POST"
              /\ sent.payload.body.url = wrapped.target
              /\ sent.payload.body.method = wrapped.payload.method
              /\ sent.payload.body.headers = wrapped.payload.headers
              /\ sent.payload.body.body = wrapped.payload.body

\* ------------------------------------------------------------------ properties of the space metadata
\* C26: extractSpaceMetadata never fails: for every URL, also one without a
\* space id, and every outcome of the API call (not configured, network
\* failure, non-OK response, response without data, unparsable body) it
\* returns metadata with a non-empty title; the defaults are the title
\* "X Space Recording", the host "Unknown", 0 participants and the state
\* ended.
C26_MetadataTotal ==
  OpCalled("extractSpaceMetadata") =>
    LET spaceUrl == call[1].resp.spaceUrl
        answer == call[1].resp.answer
        fromApi == /\ call[1].reqs # <<>>
                   /\ answer.kind = "ok"
                   /\ "data" \in DOMAIN answer.data
        given(obj, field) == field \in DOMAIN obj
    IN /\ call[1].res.ok
       /\ Returned.title # <<>>
       /\ ~fromApi =>
            /\ Returned.title = <<"X Space Recording">>
            /\ Returned.hostUsername = <<"Unknown">>
            /\ Returned.participantCount = 0
            /\ Returned.state = "ended"
            /\ Returned.isLive = FALSE
       /\ fromApi =>
            /\ ~given(answer.data.data, "title") \/ answer.data.data.title = <<>> =>
                 Returned.title = <<"X Space Recording">>
            /\ ~given(answer.data, "host") => Returned.hostUsername = <<"Unknown">>
            /\ ~given(answer.data.data, "participant_count") => Returned.participantCount = 0
            /\ ~given(answer.data.data, "state") => Returned.state = "ended"
       /\ ~extractSpaceId(spaceUrl).ok => call[1].reqs = <<>> /\ Returned.id = "unknown"

\* the API is asked about a space and answers with a body that is no JSON
C26_Witness ==
  /\ OpCalled("extractSpaceMetadata")
  /\ Len(call[1].reqs) = 1
  /\ call[1].resp.answer.kind = "badjson"
  /\ call[1].res.ok
  /\ Returned.id = "1abcXYZ"
  /\ Returned.title = <<"X Space Recording">>

\* ------------------------------------------------------------------ properties of the section headers
\* the bare header of the section a line names: the first of summary,
\* key points or takeaways, topics, sentiment and action that it contains
BareHeader(line) ==
  LET has(w) == \E i \in 1..Len(line) : TokenIncludes(line[i], w)
  IN IF has("summary") THEN <<"Summary:">>
     ELSE IF has("key points") \/ has("takeaways") THEN <<"Key Points:">>
     ELSE IF has("topics") THEN <<"Topics:">>
     ELSE IF has("sentiment") THEN <<"Sentiment:">>
     ELSE <<"Action Items:">>

\* the text with every line that has a section marker replaced by the bare
\* header of its section
WithBareHeaders(content) ==
  LET lines == SplitLines(content, <<>>)
  IN JoinLines([k \in 1..Len(lines) |->
                  IF HasMarker(lines[k]) THEN BareHeader(lines[k]) ELSE lines[k]])

\* C27: on the text path a line that contains a section marker only moves
\* the cursor, to the first of summary, key points / takeaways, topics,
\* sentiment, action it contains: the result is that of the text with the
\* line replaced by the bare header of that section, so none of its own
\* text reaches summary, keyPoints, topics or actionItems and no sentiment
\* word is taken from it, with or without bullet and in whatever section;
\* a text of such lines alone gives the placeholders.
C27_HeadersOnlyMove ==
  (OpCalled("generateSummary") /\ ~ParsesAsJson(Content)) =>
    /\ call[1].res.ok
    /\ Returned = parseTextResponse(WithBareHeaders(Content), CallerSpeakers)
    /\ (\A k \in 1..Len(ScannedLines(Content)) : HasMarker(ScannedLines(Content)[k])) =>
         /\ Returned.summary = <<"Summary could not be generated.">>
         /\ Returned.keyPoints = << <<"Key points could not be extracted.">> >>
         /\ Returned.topics = << <<"Topics could not be identified.">> >>
         /\ Returned.sentiment = "neutral"
         /\ Returned.actionItems = <<>>

\* a sentiment header with a sentiment word, then a bullet line that names
\* the summary and the topics, then a plain line: the word is not taken, the
\* bullet line opens the summary section and only the plain line is summary
C27_Witness ==
  /\ OpCalled("generateSummary")
  /\ Content = <<"Sentiment:", " ", "Positive", "\n", "-", " ", "Summary of topics", "\n",
                 "no json here at all">>
  /\ Returned.sentiment = "neutral"
  /\ Returned.summary = <<"no json here at all">>
  /\ Returned.topics = << <<"Topics could not be identified.">> >>

\* ------------------------------------------------------------------ properties of the application state
\* the invocation returns in this step
RunEnds(r) == runs[r].pc \notin {"idle", "done"} /\ runs'[r].pc = "done"

\* C28 as stated: the processing flag is set in every state in which an
\* invocation has started and not ended, and the step in which an invocation
\* ends leaves the flag unset, the stage label empty and exactly one of the
\* two set: the result record after a success, a non-empty error message
\* after a failure.
C28_RunEndsClean ==
  [][/\ \A r \in Runs : runs'[r].pc \notin {"idle", "done"} => isProcessing'
     /\ \A r \in Runs :
          RunEnds(r) =>
            /\ ~isProcessing'
            /\ processingStep' = ""
            /\ runs'[r].outcome[1].kind = "result" =>
                 transcriptionResult' = r /\ error' = NoError
            /\ runs'[r].outcome[1].kind = "error" =>
                 transcriptionResult' = 0 /\ error' # NoError]_vars

\* C29 as stated: at most one invocation is in flight at any time.
C29_OneRunInFlight == Cardinality(InFlight) <= 1

====
